---- MODULE Spec2Model ----
(***************************************************************************)
(* Model of the timelapse generator's encoding-backend layer:              *)
(*   - BackendRegistry (video/backends/registry.py): the name -> class     *)
(*     dict, the availability cache and the priority ranking;              *)
(*   - VideoGenerator (video/generator.py): backend acquisition with       *)
(*     fallback, the frame loop, finalization and cleanup.                 *)
(*   - the factory functions create_backend / create_best_backend;         *)
(*   - OpenCVBackend and FFmpegCVBackend (video/backends/*_backend.py):    *)
(*     construction, validate_settings and the open / write_frame / close  *)
(*     life cycle;                                                         *)
(*   - the dimensions generate_video hands to a backend.                   *)
(* The machines share the variables: Spec runs the registry's operations,  *)
(* FactorySpec the factory functions over a registry, JobSpec one          *)
(* generate_video job, ConfigSpec the construction and validation of       *)
(* backend instances, LifecycleSpec the calls on one backend instance and  *)
(* DimSpec the dimension steps of generate_video. Each holds the           *)
(* variables of the others at their initial values.                        *)
(***************************************************************************)
EXTENDS Integers, Sequences, FiniteSets, TLC

VARIABLES
    backends,            \* BackendRegistry._backends: dict in insertion order, <<[name, cls]>>
    availability_cache,  \* BackendRegistry._availability_cache: name -> BOOLEAN (partial)
    last,                \* the registry call made last, its argument and what it returned
    pc,                  \* position of the generate_video job
    job,                 \* the VideoGenerator's settings and the validated image count
    available,           \* _create_backend_instance: keys of get_available_backends()
    fb,                  \* _create_backend_instance: index of the fallback loop
    attempted,           \* names create_backend was called with, in call order
    backend,             \* the acquired backend instance: name, _is_opened, _writer
    file,                \* the file at output_path: absent, empty or holding data
    i,                   \* frame loop: number of validated images processed so far
    frame_count,         \* frame loop: frame_count
    skipped_count,       \* frame loop: skipped_count
    step,                \* what the last frame-loop iteration / open call did
    result,              \* the dict generate_video returned
    error,               \* the exception generate_video raised
    calls,               \* the calls generate_video made on the backend instance, in order
    thumb,               \* the _create_thumbnail calls of the job and what the last returned
    inst,                \* a backend instance: its settings, _is_opened, _writer
    writers,             \* the writer objects the encoder library handed out
    hist,                \* the call made last on the backend layer and its outcome
    dim,                 \* generate_video: source size, self.resolution, width, height
    intake,              \* the input directory, the generator's settings and what the
                         \* image intake of generate_video / estimate_output_info did
    probes,              \* per name, since the cache entry of the name was last
                         \* invalidated: the is_available() calls made and the
                         \* availability values the registry's callers were given
    frame,               \* the frame loop's current image: its decoded channels, what
                         \* _process_image returned and what the writer was handed
    conc                 \* threads calling the registry: each one's position and
                         \* locals, and the names whose cache entry is stale

regVars == <<backends, availability_cache, last>>
jobVars == <<pc, job, available, fb, attempted, backend, file, i, frame_count,
             skipped_count, step, result, error, calls, thumb>>
libVars == <<inst, writers, hist, dim, intake, probes, frame, conc>>
vars == <<backends, availability_cache, last, pc, job, available, fb, attempted,
          backend, file, i, frame_count, skipped_count, step, result, error, calls,
          thumb, inst, writers, hist, dim, intake, probes, frame, conc>>

(***************************************************************************)
(* Bounds and universes                                                    *)
(***************************************************************************)
MaxBackends == 2
MaxImages == 2
MaxChannel == 2
MaxDim == 3
MaxWriters == 2

Names == {"opencv", "ffmpegcv", "custom"}
NoName == "None"

NoPriority == -1
DefaultPriority == 100
FFmpegCVPriority == 90

\* A backend class, as far as the registry can see it: its `priority` class
\* attribute (NoPriority when the class has none) and what its static
\* is_available() probe does.
Classes == [prio : {FFmpegCVPriority, DefaultPriority, NoPriority},
            probe : {"true", "false", "raise"}]

(***************************************************************************)
(* Python dict, insertion ordered                                          *)
(***************************************************************************)
DictKeys(d) == [k \in 1..Len(d) |-> d[k].name]

DictHas(d, n) == \E k \in 1..Len(d) : d[k].name = n

DictGet(d, n) == d[CHOOSE k \in 1..Len(d) : d[k].name = n].cls

\* d[n] = c : an existing key keeps its position, a new key goes last
DictSet(d, n, c) ==
    IF DictHas(d, n)
    THEN [k \in 1..Len(d) |-> IF d[k].name = n THEN [name |-> n, cls |-> c] ELSE d[k]]
    ELSE Append(d, [name |-> n, cls |-> c])

DictDel(d, n) == SelectSeq(d, LAMBDA e : e.name # n)

CachePop(cache, n) == [m \in (DOMAIN cache) \ {n} |-> cache[m]]

CacheSet(cache, n, v) == [m \in (DOMAIN cache) \cup {n} |-> IF m = n THEN v ELSE cache[m]]

EmptyCache == [m \in {} |-> FALSE]

(***************************************************************************)
(* BackendRegistry                                                         *)
(***************************************************************************)
\* register without the pop of the name's cache entry
register_keeps_cache(d, cache, n, c) == [backends |-> DictSet(d, n, c), cache |-> cache]

register(d, cache, n, c) == [backends |-> DictSet(d, n, c), cache |-> CachePop(cache, n)]

\* unregister with its membership test inverted
unregister_inverted_guard(d, cache, n) ==
    IF ~DictHas(d, n)
    THEN [backends |-> DictDel(d, n), cache |-> CachePop(cache, n)]
    ELSE [backends |-> d, cache |-> cache]

unregister(d, cache, n) ==
    IF DictHas(d, n)
    THEN [backends |-> DictDel(d, n), cache |-> CachePop(cache, n)]
    ELSE [backends |-> d, cache |-> cache]

list_backends(d) == DictKeys(d)

\* is_backend_available without the try/except around the probe: an exception
\* of backend_class.is_available() leaves the method
is_backend_available_no_except(d, cache, n) ==
    IF n \in DOMAIN cache
    THEN [ret |-> cache[n], cache |-> cache, raised |-> FALSE, probed |-> FALSE]
    ELSE IF ~DictHas(d, n)
    THEN [ret |-> FALSE, cache |-> CacheSet(cache, n, FALSE), raised |-> FALSE,
          probed |-> FALSE]
    ELSE IF DictGet(d, n).probe = "raise"
    THEN [ret |-> FALSE, cache |-> cache, raised |-> TRUE, probed |-> TRUE]
    ELSE [ret |-> (DictGet(d, n).probe = "true"),
          cache |-> CacheSet(cache, n, DictGet(d, n).probe = "true"), raised |-> FALSE,
          probed |-> TRUE]

\* is_backend_available with no cache write in the except branch
is_backend_available_forgets_failure(d, cache, n) ==
    IF n \in DOMAIN cache
    THEN [ret |-> cache[n], cache |-> cache, raised |-> FALSE, probed |-> FALSE]
    ELSE IF ~DictHas(d, n)
    THEN [ret |-> FALSE, cache |-> CacheSet(cache, n, FALSE), raised |-> FALSE,
          probed |-> FALSE]
    ELSE IF DictGet(d, n).probe = "raise"
    THEN [ret |-> FALSE, cache |-> cache, raised |-> FALSE, probed |-> TRUE]
    ELSE [ret |-> (DictGet(d, n).probe = "true"),
          cache |-> CacheSet(cache, n, DictGet(d, n).probe = "true"), raised |-> FALSE,
          probed |-> TRUE]

\* ret = the value returned, cache = the cache afterwards, raised = an
\* exception left the method, probed = backend_class.is_available() was called
is_backend_available(d, cache, n) ==
    IF n \in DOMAIN cache
    THEN [ret |-> cache[n], cache |-> cache, raised |-> FALSE, probed |-> FALSE]
    ELSE IF ~DictHas(d, n)
    THEN [ret |-> FALSE, cache |-> CacheSet(cache, n, FALSE), raised |-> FALSE,
          probed |-> FALSE]
    ELSE IF DictGet(d, n).probe = "raise"
    THEN [ret |-> FALSE, cache |-> CacheSet(cache, n, FALSE), raised |-> FALSE,
          probed |-> TRUE]
    ELSE [ret |-> (DictGet(d, n).probe = "true"),
          cache |-> CacheSet(cache, n, DictGet(d, n).probe = "true"), raised |-> FALSE,
          probed |-> TRUE]

\* the loop of get_available_backends over _backends.items(), from item k on
RECURSIVE available_from(_, _, _)
available_from(d, cache, k) ==
    IF k > Len(d)
    THEN [ret |-> <<>>, cache |-> cache, probed |-> {}]
    ELSE LET a == is_backend_available(d, cache, d[k].name)
             rest == available_from(d, a.cache, k + 1)
         IN [ret |-> IF a.ret THEN <<d[k].name>> \o rest.ret ELSE rest.ret,
             cache |-> rest.cache,
             probed |-> (IF a.probed THEN {d[k].name} ELSE {}) \cup rest.probed]

\* the keys of the returned dict, in its insertion order; probed = the names
\* whose class's is_available() was called
get_available_backends(d, cache) == available_from(d, cache, 1)

get_backend_priority(d, n) ==
    IF ~DictHas(d, n) THEN DefaultPriority
    ELSE IF DictGet(d, n).prio # NoPriority THEN DictGet(d, n).prio
    ELSE IF n = "ffmpegcv" THEN FFmpegCVPriority
    ELSE DefaultPriority

\* a sort by priority that puts a later name before earlier ones of the same priority
RECURSIVE sorted_ties_reversed(_, _)
sorted_ties_reversed(names, d) ==
    IF names = <<>> THEN <<>>
    ELSE LET s == sorted_ties_reversed(SubSeq(names, 1, Len(names) - 1), d)
             x == names[Len(names)]
             pos == Cardinality({k \in 1..Len(s) :
                        get_backend_priority(d, s[k]) < get_backend_priority(d, x)})
         IN SubSeq(s, 1, pos) \o <<x>> \o SubSeq(s, pos + 1, Len(s))

\* sorted(names, key=get_backend_priority): Python's sort is stable
RECURSIVE sorted_by_priority(_, _)
sorted_by_priority(names, d) ==
    IF names = <<>> THEN <<>>
    ELSE LET s == sorted_by_priority(SubSeq(names, 1, Len(names) - 1), d)
             x == names[Len(names)]
             pos == Cardinality({k \in 1..Len(s) :
                        get_backend_priority(d, s[k]) <= get_backend_priority(d, x)})
         IN SubSeq(s, 1, pos) \o <<x>> \o SubSeq(s, pos + 1, Len(s))

get_best_backend(d, cache) ==
    LET av == get_available_backends(d, cache)
    IN [ret |-> IF av.ret = <<>> THEN NoName ELSE sorted_by_priority(av.ret, d)[1],
        cache |-> av.cache, probed |-> av.probed, available |-> av.ret]

clear_cache(cache) == EmptyCache

(***************************************************************************)
(* The registry machine                                                    *)
(***************************************************************************)
\* last: op/name = the call and its argument; was = the name was registered
\* when the call was made; had = the cache held an entry for it; ret and
\* ret_bool = the name or the truth value returned; before = list_backends() before the call (for an unregister
\* that directly follows register of the same name: before that register, with
\* roundtrip set and reg_was telling whether the name was registered then);
\* raised = the exception that left the call ("none" when it returned);
\* constructed = the call invoked a backend class's constructor.
NoCall == [op |-> "none", name |-> NoName, was |-> FALSE, had |-> FALSE,
           ret |-> NoName, ret_bool |-> FALSE, before |-> <<>>, roundtrip |-> FALSE,
           reg_was |-> FALSE, raised |-> "none", constructed |-> FALSE]

\* no backend instance constructed, no call made
NoInstance == [kind |-> NoName, fps |-> 0, width |-> 0, height |-> 0,
               quality_preset |-> NoName, codec |-> NoName, crf |-> 0,
               hw |-> [ffmpegcv |-> FALSE, nvidia |-> FALSE, intel |-> FALSE],
               is_opened |-> FALSE, writer |-> 0]

\* hist: op = the call; raised = the exception that left it ("none" when it
\* returned); fps, in_width, in_height, quality_preset, codec = the arguments
\* of a constructor or of ensure_even_dimensions; out_width, out_height = the
\* dimensions stored or returned; errors = the list validate_settings returned;
\* handed = write_frame passed the frame to a writer's write(); released = close
\* called a writer's release(); was_opened, was_writer = _is_opened and _writer
\* when the call was made; prev = the call made before this one; live = open()
\* has returned and close() has not been called since; opens = the number of
\* open() calls that returned.
NoHist == [op |-> "none", raised |-> "none", fps |-> 0, in_width |-> 0, in_height |-> 0,
           quality_preset |-> NoName, codec |-> NoName,
           out_width |-> 0, out_height |-> 0, errors |-> {},
           handed |-> FALSE, released |-> FALSE, was_opened |-> FALSE, was_writer |-> 0,
           prev |-> "none", live |-> FALSE, opens |-> 0]

NoDim == [stage |-> "none", source |-> <<0, 0>>, resolution |-> <<0, 0>>,
          width |-> 0, height |-> 0, kind |-> NoName, stored |-> <<0, 0>>]

\* the record estimate_output_info returns: kind = "error" for {"error": ...},
\* "estimate" for the estimate dict; duration_seconds = the fraction
\* frame_count / fps as <<numerator, denominator>>; bitrate20 = twenty times
\* the bit rate the size estimate was made with (0 when none was used).
NoEstimate == [kind |-> "none", input_count |-> 0, duration_seconds |-> <<0, 1>>,
               bitrate20 |-> 0]

\* intake: op = the method called; dir = the input directory (exists, and its
\* image files in natural order, each valid or not, with its pixel size);
\* fps, quality = the generator's settings; sample_ok = get_image_info can
\* read the sample image; raised = the exception that left the method; valid
\* = the number of validated images it went on with; ret = what
\* estimate_output_info returned.
NoIntake == [op |-> "none", dir |-> [exists |-> FALSE, files |-> <<>>], fps |-> 0,
             quality |-> NoName, sample_ok |-> FALSE, raised |-> "none", valid |-> 0,
             ret |-> NoEstimate]

\* probes[n]: count = the is_available() calls made on the class registered
\* under n, seen = the availability values of n handed to callers, both since
\* the last register(n, ...), unregister(n) or clear_cache()
NoProbes == [n \in Names |-> [count |-> 0, seen |-> {}]]

\* frame: stage = where the frame loop is with the current image; decoded =
\* the channels of one pixel as cv2.imread gave them, <<blue, green, red>>;
\* data = the same pixel in the array _process_image returned; handed = the
\* pixel in the array passed to the writer's write(); pipeline_converted =
\* _process_image reordered channels; backend_reordered = write_frame did.
NoFrame == [stage |-> "none", decoded |-> <<>>, data |-> <<>>, handed |-> <<>>,
            pipeline_converted |-> FALSE, backend_reordered |-> FALSE]

\* no thread is inside a registry method, no cache entry is stale
NoConc == [thr |-> <<>>, stale |-> {}]

LibIdle ==
    /\ inst = NoInstance
    /\ writers = <<>>
    /\ hist = NoHist
    /\ dim = NoDim
    /\ intake = NoIntake
    /\ probes = NoProbes
    /\ frame = NoFrame
    /\ conc = NoConc

\* thumb: attempts = the number of _create_thumbnail calls; middle_index = the
\* index into valid_images it read; outcome = what happened in it; thumbnail =
\* the value of the result's "thumbnail" key ("None" or "info"); file_before =
\* the file at output_path when it was called.
NoThumb == [attempts |-> 0, middle_index |-> -1, outcome |-> "none", thumbnail |-> "None",
            file_before |-> "absent"]

JobIdle ==
    /\ pc = "idle"
    /\ job = [backend_name |-> NoName, backend_fallback |-> FALSE, total_images |-> 0,
              create_thumbnail |-> FALSE]
    /\ available = <<>>
    /\ fb = 0
    /\ attempted = <<>>
    /\ backend = [name |-> NoName, is_opened |-> FALSE, writer |-> FALSE]
    /\ file = "absent"
    /\ i = 0
    /\ frame_count = 0
    /\ skipped_count = 0
    /\ step = "none"
    /\ result = [success |-> FALSE, backend_used |-> NoName, frame_count |-> 0,
                 skipped_count |-> 0]
    /\ error = [kind |-> "none", tried |-> <<>>]
    /\ calls = <<>>
    /\ thumb = NoThumb

Init ==
    /\ backends = <<>>
    /\ availability_cache = EmptyCache
    /\ last = NoCall
    /\ JobIdle
    /\ LibIdle

Register(n, c) ==
    /\ pc = "idle"
    /\ DictHas(backends, n) \/ Len(backends) < MaxBackends
    /\ LET r == register(backends, availability_cache, n, c)
       IN /\ backends' = r.backends
          /\ availability_cache' = r.cache
    /\ last' = [NoCall EXCEPT !.op = "register", !.name = n,
                              !.was = DictHas(backends, n),
                              !.had = (n \in DOMAIN availability_cache),
                              !.before = list_backends(backends)]
    /\ UNCHANGED <<jobVars, libVars>>

Unregister(n) ==
    /\ pc = "idle"
    /\ LET r == unregister(backends, availability_cache, n)
       IN /\ backends' = r.backends
          /\ availability_cache' = r.cache
    /\ last' = IF last.op = "register" /\ last.name = n
               THEN [NoCall EXCEPT !.op = "unregister", !.name = n,
                                   !.was = DictHas(backends, n),
                                   !.had = (n \in DOMAIN availability_cache),
                                   !.before = last.before,
                                   !.roundtrip = TRUE,
                                   !.reg_was = last.was]
               ELSE [NoCall EXCEPT !.op = "unregister", !.name = n,
                                   !.was = DictHas(backends, n),
                                   !.had = (n \in DOMAIN availability_cache),
                                   !.before = list_backends(backends)]
    /\ UNCHANGED <<jobVars, libVars>>

IsBackendAvailable(n) ==
    /\ pc = "idle"
    /\ LET r == is_backend_available(backends, availability_cache, n)
       IN /\ availability_cache' = r.cache
          /\ last' = [NoCall EXCEPT !.op = "is_backend_available", !.name = n,
                                    !.was = DictHas(backends, n),
                                    !.had = (n \in DOMAIN availability_cache),
                                    !.ret_bool = r.ret,
                                    !.raised = IF r.raised THEN "Exception" ELSE "none"]
    /\ UNCHANGED backends
    /\ UNCHANGED <<jobVars, libVars>>

GetAvailableBackends ==
    /\ pc = "idle"
    /\ LET r == get_available_backends(backends, availability_cache)
       IN /\ availability_cache' = r.cache
          /\ last' = [NoCall EXCEPT !.op = "get_available_backends", !.before = r.ret]
    /\ UNCHANGED backends
    /\ UNCHANGED <<jobVars, libVars>>

GetBestBackend ==
    /\ pc = "idle"
    /\ LET r == get_best_backend(backends, availability_cache)
       IN /\ availability_cache' = r.cache
          /\ last' = [NoCall EXCEPT !.op = "get_best_backend", !.ret = r.ret]
    /\ UNCHANGED backends
    /\ UNCHANGED <<jobVars, libVars>>

ClearCache ==
    /\ pc = "idle"
    /\ availability_cache' = clear_cache(availability_cache)
    /\ last' = [NoCall EXCEPT !.op = "clear_cache"]
    /\ UNCHANGED backends
    /\ UNCHANGED <<jobVars, libVars>>

Next ==
    \/ \E n \in Names, c \in Classes : Register(n, c)
    \/ \E n \in Names : Unregister(n)
    \/ \E n \in Names : IsBackendAvailable(n)
    \/ GetAvailableBackends
    \/ GetBestBackend
    \/ ClearCache

Spec == Init /\ [][Next]_vars

(***************************************************************************)
(* VideoGenerator: one generate_video job                                  *)
(***************************************************************************)
\* Classes the job machine starts from: a declared priority and a probe that
\* returns.
JobClasses == {c \in Classes : c.prio # NoPriority /\ c.probe # "raise"}

\* every dict the registry can hold over JobClasses
Registries ==
    UNION {{s \in [1..k -> [name : Names, cls : JobClasses]] :
               \A a, b \in 1..k : a # b => s[a].name # s[b].name} : k \in 0..MaxBackends}

FileStates == {"absent", "empty", "data"}

NoBackend == [name |-> NoName, is_opened |-> FALSE, writer |-> FALSE]

NoResult == [success |-> FALSE, backend_used |-> NoName, frame_count |-> 0,
             skipped_count |-> 0]

NoError == [kind |-> "none", tried |-> <<>>]

\* create_backend without the availability check before the constructor call
create_backend_skips_availability(d, cache, name, ctor_ok) ==
    IF ~DictHas(d, name)
    THEN [ok |-> FALSE, raised |-> "ValueError: Unknown backend", cache |-> cache,
          constructed |-> FALSE, probed |-> {}]
    ELSE IF ctor_ok
    THEN [ok |-> TRUE, raised |-> "none", cache |-> cache, constructed |-> TRUE,
          probed |-> {}]
    ELSE [ok |-> FALSE, raised |-> "RuntimeError: Failed to create backend",
          cache |-> cache, constructed |-> TRUE, probed |-> {}]

\* registry.create_backend: ctor_ok tells whether backend_class(**kwargs)
\* returns; constructed tells whether backend_class(**kwargs) was called;
\* probed = the names whose class's is_available() was called
create_backend(d, cache, name, ctor_ok) ==
    IF ~DictHas(d, name)
    THEN [ok |-> FALSE, raised |-> "ValueError: Unknown backend", cache |-> cache,
          constructed |-> FALSE, probed |-> {}]
    ELSE LET a == is_backend_available(d, cache, name)
             pr == IF a.probed THEN {name} ELSE {}
         IN IF ~a.ret
            THEN [ok |-> FALSE, raised |-> "ValueError: not available", cache |-> a.cache,
                  constructed |-> FALSE, probed |-> pr]
            ELSE IF ctor_ok
            THEN [ok |-> TRUE, raised |-> "none", cache |-> a.cache, constructed |-> TRUE,
                  probed |-> pr]
            ELSE [ok |-> FALSE, raised |-> "RuntimeError: Failed to create backend",
                  cache |-> a.cache, constructed |-> TRUE, probed |-> pr]

\* registry.create_best_backend; name = the backend get_best_backend chose
create_best_backend(d, cache, ctor_ok) ==
    LET b == get_best_backend(d, cache)
        r == create_backend(d, b.cache, b.ret, ctor_ok)
    IN IF b.ret = NoName
       THEN [ok |-> FALSE, raised |-> "RuntimeError: No video backends are available",
             cache |-> b.cache, constructed |-> FALSE, name |-> NoName]
       ELSE [ok |-> r.ok, raised |-> r.raised, cache |-> r.cache,
             constructed |-> r.constructed, name |-> b.ret]

(***************************************************************************)
(* The factory functions over a registry                                   *)
(***************************************************************************)
\* every dict the registry can hold
AllRegistries ==
    UNION {{s \in [1..k -> [name : Names, cls : Classes]] :
               \A a, b \in 1..k : a # b => s[a].name # s[b].name} : k \in 0..MaxBackends}

FactoryInit ==
    /\ backends \in AllRegistries
    /\ availability_cache = EmptyCache
    /\ last = NoCall
    /\ JobIdle
    /\ LibIdle

CreateBackend(n, ctor_ok) ==
    /\ pc = "idle"
    /\ LET r == create_backend(backends, availability_cache, n, ctor_ok)
       IN /\ availability_cache' = r.cache
          /\ last' = [NoCall EXCEPT !.op = "create_backend", !.name = n,
                                    !.was = DictHas(backends, n),
                                    !.had = (n \in DOMAIN availability_cache),
                                    !.ret_bool = r.ok,
                                    !.raised = r.raised,
                                    !.constructed = r.constructed]
    /\ UNCHANGED backends
    /\ UNCHANGED <<jobVars, libVars>>

CreateBestBackend(ctor_ok) ==
    /\ pc = "idle"
    /\ LET r == create_best_backend(backends, availability_cache, ctor_ok)
       IN /\ availability_cache' = r.cache
          /\ last' = [NoCall EXCEPT !.op = "create_best_backend", !.name = r.name,
                                    !.ret_bool = r.ok,
                                    !.raised = r.raised,
                                    !.constructed = r.constructed]
    /\ UNCHANGED backends
    /\ UNCHANGED <<jobVars, libVars>>

FactoryNext ==
    \/ \E n \in Names, ctor_ok \in BOOLEAN : CreateBackend(n, ctor_ok)
    \/ \E ctor_ok \in BOOLEAN : CreateBestBackend(ctor_ok)
    \/ \E n \in Names : IsBackendAvailable(n)
    \/ ClearCache

FactorySpec == FactoryInit /\ [][FactoryNext]_vars

(***************************************************************************)
(* The registry's availability cache and the probes it makes               *)
(***************************************************************************)
\* classes of the cache machine: one declared priority, each probe behaviour
CacheClasses == {c \in Classes : c.prio = DefaultPriority}

\* the cache entry of the names ns was invalidated
Invalidated(pr, ns) ==
    [n \in Names |-> IF n \in ns THEN [count |-> 0, seen |-> {}] ELSE pr[n]]

\* a call probed the names of probed and gave its caller the availability
\* values obs (a function over the names it was asked about)
Observed(pr, probed, obs) ==
    [n \in Names |-> [count |-> IF n \in probed THEN pr[n].count + 1 ELSE pr[n].count,
                      seen |-> IF n \in DOMAIN obs THEN pr[n].seen \cup {obs[n]}
                               ELSE pr[n].seen]]

\* what get_available_backends tells about each registered name
AvailabilityOf(d, ret) ==
    [n \in {d[k].name : k \in 1..Len(d)} |-> \E k \in 1..Len(ret) : ret[k] = n]

CacheRegister(n, c) ==
    /\ DictHas(backends, n) \/ Len(backends) < MaxBackends
    /\ LET r == register(backends, availability_cache, n, c)
       IN /\ backends' = r.backends
          /\ availability_cache' = r.cache
    /\ probes' = Invalidated(probes, {n})
    /\ UNCHANGED <<last, jobVars, inst, writers, hist, dim, intake, frame, conc>>

CacheUnregister(n) ==
    /\ LET r == unregister(backends, availability_cache, n)
       IN /\ backends' = r.backends
          /\ availability_cache' = r.cache
    /\ probes' = Invalidated(probes, {n})
    /\ UNCHANGED <<last, jobVars, inst, writers, hist, dim, intake, frame, conc>>

CacheClearCache ==
    /\ availability_cache' = clear_cache(availability_cache)
    /\ probes' = Invalidated(probes, Names)
    /\ UNCHANGED <<backends, last, jobVars, inst, writers, hist, dim, intake, frame, conc>>

CacheIsBackendAvailable(n) ==
    /\ LET r == is_backend_available(backends, availability_cache, n)
       IN /\ availability_cache' = r.cache
          /\ probes' = Observed(probes, IF r.probed THEN {n} ELSE {},
                                 [m \in {n} |-> r.ret])
    /\ UNCHANGED <<backends, last, jobVars, inst, writers, hist, dim, intake, frame, conc>>

CacheGetAvailableBackends ==
    /\ LET r == get_available_backends(backends, availability_cache)
       IN /\ availability_cache' = r.cache
          /\ probes' = Observed(probes, r.probed, AvailabilityOf(backends, r.ret))
    /\ UNCHANGED <<backends, last, jobVars, inst, writers, hist, dim, intake, frame, conc>>

CacheGetBestBackend ==
    /\ LET r == get_best_backend(backends, availability_cache)
       IN /\ availability_cache' = r.cache
          /\ probes' = Observed(probes, r.probed, AvailabilityOf(backends, r.available))
    /\ UNCHANGED <<backends, last, jobVars, inst, writers, hist, dim, intake, frame, conc>>

\* create_backend(name): a registered name's availability shows in whether
\* ValueError('... not available') is raised
CacheCreateBackend(n, ctor_ok) ==
    /\ LET r == create_backend(backends, availability_cache, n, ctor_ok)
       IN /\ availability_cache' = r.cache
          /\ probes' = Observed(probes, r.probed,
                                 IF DictHas(backends, n)
                                 THEN [m \in {n} |-> r.raised # "ValueError: not available"]
                                 ELSE [m \in {} |-> FALSE])
    /\ UNCHANGED <<backends, last, jobVars, inst, writers, hist, dim, intake, frame, conc>>

CacheNext ==
    \/ \E n \in Names, c \in CacheClasses : CacheRegister(n, c)
    \/ \E n \in Names : CacheUnregister(n)
    \/ CacheClearCache
    \/ \E n \in Names : CacheIsBackendAvailable(n)
    \/ CacheGetAvailableBackends
    \/ CacheGetBestBackend
    \/ \E n \in Names, ctor_ok \in BOOLEAN : CacheCreateBackend(n, ctor_ok)

CacheSpec == Init /\ [][CacheNext]_vars

(***************************************************************************)
(* BackendRegistry called from several threads. The class keeps two plain  *)
(* dicts and takes no lock; every dict operation of a method is one step.  *)
(***************************************************************************)
Threads == {"T1", "T2"}

\* the names the threads call the registry with: the two the package registers
ConcNames == {"opencv", "ffmpegcv"}

\* backend_class before cls._backends.get(name) has run, or when it gave None
NoneClass == [prio |-> NoPriority, probe |-> "none"]

\* a thread outside the registry. pc = the statement the thread runs next;
\* name, cls = the arguments of its call; backend_class, available = the
\* locals of is_backend_available; superseded = the threads that have written
\* cls._backends[name] (or deleted it) since this thread read it and have not
\* returned yet; stale = such a register / unregister call has returned.
IdleThread == [pc |-> "idle", name |-> NoName, cls |-> NoneClass,
               backend_class |-> NoneClass, available |-> FALSE,
               superseded |-> {}, stale |-> FALSE]

\* the statements of is_backend_available after cls._backends.get(name)
AfterGet == {"ia_probe", "ia_write"}

\* register / unregister of name n by thread t has changed cls._backends: the
\* threads probing n that hold the class read before
Superseded(thr, t, n) ==
    [v \in Threads |->
        IF v # t /\ thr[v].name = n /\ thr[v].pc \in AfterGet
              /\ thr[v].backend_class # NoneClass
        THEN [thr[v] EXCEPT !.superseded = @ \cup {t}]
        ELSE thr[v]]

\* the register / unregister call of thread t returns, cls._backends being d:
\* a thread whose backend_class the call superseded holds a stale class unless
\* the same class is registered under the name again
Returned(thr, t, d) ==
    [v \in Threads |->
        IF v = t THEN IdleThread
        ELSE IF t \in thr[v].superseded
        THEN [thr[v] EXCEPT !.superseded = @ \ {t},
                            !.stale = @ \/ ~DictHas(d, thr[v].name)
                                        \/ DictGet(d, thr[v].name) # thr[v].backend_class]
        ELSE thr[v]]

\* names that calls in progress are about to add to cls._backends
PendingNames == {conc.thr[v].name : v \in {u \in Threads : conc.thr[u].pc = "reg_write"}}

ConcInit ==
    /\ backends = <<>>
    /\ availability_cache = EmptyCache
    /\ last = NoCall
    /\ JobIdle
    /\ inst = NoInstance
    /\ writers = <<>>
    /\ hist = NoHist
    /\ dim = NoDim
    /\ intake = NoIntake
    /\ probes = NoProbes
    /\ frame = NoFrame
    /\ conc = [thr |-> [t \in Threads |-> IdleThread], stale |-> {}]

\* thread t calls register(n, c): the membership test and its warning
ConcCallRegister(t, n, c) ==
    /\ conc.thr[t].pc = "idle"
    /\ Cardinality({backends[k].name : k \in 1..Len(backends)} \cup PendingNames \cup {n})
          <= MaxBackends
    /\ conc' = [conc EXCEPT !.thr[t] = [IdleThread EXCEPT !.pc = "reg_write", !.name = n,
                                                         !.cls = c]]
    /\ UNCHANGED <<regVars, jobVars, inst, writers, hist, dim, intake, probes, frame>>

\* cls._backends[name] = backend_class
ConcRegisterWrite(t) ==
    /\ conc.thr[t].pc = "reg_write"
    /\ backends' = DictSet(backends, conc.thr[t].name, conc.thr[t].cls)
    /\ conc' = [conc EXCEPT !.thr = [Superseded(conc.thr, t, conc.thr[t].name)
                                         EXCEPT ![t].pc = "reg_pop"]]
    /\ UNCHANGED <<availability_cache, last, jobVars, inst, writers, hist, dim, intake,
                   probes, frame>>

\* cls._availability_cache.pop(name, None), and register returns
ConcRegisterPop(t) ==
    /\ conc.thr[t].pc = "reg_pop"
    /\ availability_cache' = CachePop(availability_cache, conc.thr[t].name)
    /\ conc' = [thr |-> Returned(conc.thr, t, backends), stale |-> conc.stale \ {conc.thr[t].name}]
    /\ UNCHANGED <<backends, last, jobVars, inst, writers, hist, dim, intake, probes, frame>>

\* thread t calls unregister(n)
ConcCallUnregister(t, n) ==
    /\ conc.thr[t].pc = "idle"
    /\ conc' = [conc EXCEPT !.thr[t] = [IdleThread EXCEPT !.pc = "unreg_test", !.name = n]]
    /\ UNCHANGED <<regVars, jobVars, inst, writers, hist, dim, intake, probes, frame>>

\* if name in cls._backends
ConcUnregisterTest(t) ==
    /\ conc.thr[t].pc = "unreg_test"
    /\ conc' = IF DictHas(backends, conc.thr[t].name)
               THEN [conc EXCEPT !.thr[t].pc = "unreg_del"]
               ELSE [conc EXCEPT !.thr[t] = IdleThread]
    /\ UNCHANGED <<regVars, jobVars, inst, writers, hist, dim, intake, probes, frame>>

\* del cls._backends[name]; KeyError leaves unregister when another thread
\* deleted the name after the test
ConcUnregisterDel(t) ==
    /\ conc.thr[t].pc = "unreg_del"
    /\ IF DictHas(backends, conc.thr[t].name)
       THEN /\ backends' = DictDel(backends, conc.thr[t].name)
            /\ conc' = [conc EXCEPT !.thr = [Superseded(conc.thr, t, conc.thr[t].name)
                                                 EXCEPT ![t].pc = "unreg_pop"]]
       ELSE /\ conc' = [conc EXCEPT !.thr[t] = IdleThread]
            /\ UNCHANGED backends
    /\ UNCHANGED <<availability_cache, last, jobVars, inst, writers, hist, dim, intake,
                   probes, frame>>

\* cls._availability_cache.pop(name, None), and unregister returns
ConcUnregisterPop(t) ==
    /\ conc.thr[t].pc = "unreg_pop"
    /\ availability_cache' = CachePop(availability_cache, conc.thr[t].name)
    /\ conc' = [thr |-> Returned(conc.thr, t, backends), stale |-> conc.stale \ {conc.thr[t].name}]
    /\ UNCHANGED <<backends, last, jobVars, inst, writers, hist, dim, intake, probes, frame>>

\* thread t calls is_backend_available(n)
ConcCallIsBackendAvailable(t, n) ==
    /\ conc.thr[t].pc = "idle"
    /\ conc' = [conc EXCEPT !.thr[t] = [IdleThread EXCEPT !.pc = "ia_test", !.name = n]]
    /\ UNCHANGED <<regVars, jobVars, inst, writers, hist, dim, intake, probes, frame>>

\* if name in cls._availability_cache
ConcCacheTest(t) ==
    /\ conc.thr[t].pc = "ia_test"
    /\ conc' = IF conc.thr[t].name \in DOMAIN availability_cache
               THEN [conc EXCEPT !.thr[t].pc = "ia_cached"]
               ELSE [conc EXCEPT !.thr[t].pc = "ia_get"]
    /\ UNCHANGED <<regVars, jobVars, inst, writers, hist, dim, intake, probes, frame>>

\* return cls._availability_cache[name]; KeyError leaves the method when the
\* entry was popped after the test
ConcCacheRead(t) ==
    /\ conc.thr[t].pc = "ia_cached"
    /\ conc' = [conc EXCEPT !.thr[t] = IdleThread]
    /\ UNCHANGED <<regVars, jobVars, inst, writers, hist, dim, intake, probes, frame>>

\* backend_class = cls._backends.get(name); with None the value to cache is
\* False
ConcGetClass(t) ==
    /\ conc.thr[t].pc = "ia_get"
    /\ conc' = IF DictHas(backends, conc.thr[t].name)
               THEN [conc EXCEPT !.thr[t].pc = "ia_probe",
                                 !.thr[t].backend_class = DictGet(backends, conc.thr[t].name)]
               ELSE [conc EXCEPT !.thr[t].pc = "ia_write",
                                 !.thr[t].available = FALSE]
    /\ UNCHANGED <<regVars, jobVars, inst, writers, hist, dim, intake, probes, frame>>

\* available = backend_class.is_available(); False in the except branch
ConcProbe(t) ==
    /\ conc.thr[t].pc = "ia_probe"
    /\ conc' = [conc EXCEPT !.thr[t].pc = "ia_write",
                            !.thr[t].available = (conc.thr[t].backend_class.probe = "true")]
    /\ UNCHANGED <<regVars, jobVars, inst, writers, hist, dim, intake, probes, frame>>

\* cls._availability_cache[name] = available (or False), and the method
\* returns
ConcCacheWrite(t) ==
    /\ conc.thr[t].pc = "ia_write"
    /\ availability_cache' = CacheSet(availability_cache, conc.thr[t].name,
                                      conc.thr[t].available)
    /\ conc' = [thr |-> [conc.thr EXCEPT ![t] = IdleThread],
                stale |-> IF conc.thr[t].stale
                          THEN conc.stale \cup {conc.thr[t].name}
                          ELSE conc.stale \ {conc.thr[t].name}]
    /\ UNCHANGED <<backends, last, jobVars, inst, writers, hist, dim, intake, probes, frame>>

ConcNext ==
    \E t \in Threads :
        \/ \E n \in ConcNames, c \in CacheClasses : ConcCallRegister(t, n, c)
        \/ ConcRegisterWrite(t)
        \/ ConcRegisterPop(t)
        \/ \E n \in ConcNames : ConcCallUnregister(t, n)
        \/ ConcUnregisterTest(t)
        \/ ConcUnregisterDel(t)
        \/ ConcUnregisterPop(t)
        \/ \E n \in ConcNames : ConcCallIsBackendAvailable(t, n)
        \/ ConcCacheTest(t)
        \/ ConcCacheRead(t)
        \/ ConcGetClass(t)
        \/ ConcProbe(t)
        \/ ConcCacheWrite(t)

ConcSpec == ConcInit /\ [][ConcNext]_vars

\* the loop body with frame_count incremented before write_frame is known to
\* have succeeded
frame_step_counts_failed_write(outcome, cb_raises, fc, sc) ==
    IF outcome = "decode_failed"
    THEN [frame_count |-> fc, skipped_count |-> sc + 1]
    ELSE IF outcome = "write_failed"
    THEN [frame_count |-> fc + 1, skipped_count |-> sc + 1]
    ELSE [frame_count |-> fc + 1, skipped_count |-> IF cb_raises THEN sc + 1 ELSE sc]

\* one iteration of the frame loop on the counters; outcome is what
\* _process_image and write_frame did, cb_raises whether progress_callback raised
frame_step(outcome, cb_raises, fc, sc) ==
    IF outcome = "decode_failed"
    THEN [frame_count |-> fc, skipped_count |-> sc + 1]
    ELSE IF outcome = "write_failed"
    THEN [frame_count |-> fc, skipped_count |-> sc + 1]
    ELSE [frame_count |-> fc + 1, skipped_count |-> IF cb_raises THEN sc + 1 ELSE sc]

\* a call on the backend instance; idx = the 1-based position in valid_images
\* of the image a write_frame call carries (0 for open and close)
Call(op, idx) == [op |-> op, idx |-> idx]

\* the loop body calling write_frame a second time when the first call raised
loop_calls_retries_failed_write(cs, outcome, idx) ==
    IF outcome = "decode_failed" THEN cs
    ELSE IF outcome = "write_failed"
    THEN cs \o <<Call("write_frame", idx), Call("write_frame", idx)>>
    ELSE Append(cs, Call("write_frame", idx))

\* one iteration of the frame loop on the backend: write_frame is called when
\* _process_image returned a frame
loop_calls(cs, outcome, idx) ==
    IF outcome = "decode_failed" THEN cs
    ELSE Append(cs, Call("write_frame", idx))

\* what the encoder library can leave at output_path when the writer is released
CloseOutcomes(f) == IF f = "absent" THEN FileStates ELSE {f, "data"}

JobInit ==
    /\ backends \in Registries
    /\ availability_cache = EmptyCache
    /\ last = NoCall
    /\ pc = "create_primary"
    /\ job \in [backend_name : Names, backend_fallback : BOOLEAN,
                total_images : 1..MaxImages, create_thumbnail : BOOLEAN]
    /\ available = <<>>
    /\ fb = 0
    /\ attempted = <<>>
    /\ backend = NoBackend
    /\ file = "absent"
    /\ i = 0
    /\ frame_count = 0
    /\ skipped_count = 0
    /\ step = "none"
    /\ result = NoResult
    /\ error = NoError
    /\ calls = <<>>
    /\ thumb = NoThumb
    /\ LibIdle

\* _create_backend_instance, the primary backend (and, when it fails with
\* fallback on, the call of get_available_backends that starts the fallback
\* loop). settings.video.backends comes from the configuration collaborator and
\* only adds keyword arguments; every attempt gets the same backend_kwargs.
CreatePrimary(ctor_ok) ==
    /\ pc = "create_primary"
    /\ LET r == create_backend(backends, availability_cache, job.backend_name, ctor_ok)
           av == get_available_backends(backends, r.cache)
       IN /\ attempted' = Append(attempted, job.backend_name)
          /\ IF r.ok
             THEN /\ backend' = [name |-> job.backend_name, is_opened |-> FALSE,
                                 writer |-> FALSE]
                  /\ availability_cache' = r.cache
                  /\ pc' = "open"
                  /\ UNCHANGED <<available, fb, error>>
             ELSE IF ~job.backend_fallback
             THEN /\ error' = [kind |-> "create_failed", tried |-> <<job.backend_name>>]
                  /\ availability_cache' = r.cache
                  /\ pc' = "failed"
                  /\ UNCHANGED <<available, fb, backend>>
             ELSE /\ available' = av.ret
                  /\ availability_cache' = av.cache
                  /\ fb' = 1
                  /\ pc' = "fallback"
                  /\ UNCHANGED <<backend, error>>
    /\ UNCHANGED <<backends, last, job, file, i, frame_count, skipped_count, step, result,
                   calls>>
    /\ UNCHANGED <<libVars, thumb>>

\* _create_backend_instance, one iteration of the fallback loop
TryFallback(ctor_ok) ==
    /\ pc = "fallback"
    /\ fb <= Len(available)
    /\ LET name == available[fb]
           r == create_backend(backends, availability_cache, name, ctor_ok)
       IN IF name = job.backend_name
          THEN /\ fb' = fb + 1
               /\ UNCHANGED <<attempted, backend, availability_cache, pc>>
          ELSE /\ attempted' = Append(attempted, name)
               /\ availability_cache' = r.cache
               /\ IF r.ok
                  THEN /\ backend' = [name |-> name, is_opened |-> FALSE, writer |-> FALSE]
                       /\ pc' = "open"
                       /\ UNCHANGED fb
                  ELSE /\ fb' = fb + 1
                       /\ UNCHANGED <<backend, pc>>
    /\ UNCHANGED <<backends, last, job, available, file, i, frame_count, skipped_count,
                   step, result, error, calls>>
    /\ UNCHANGED <<libVars, thumb>>

\* _create_backend_instance, after the fallback loop
FallbackExhausted ==
    /\ pc = "fallback"
    /\ fb > Len(available)
    /\ error' = [kind |-> "no_backend", tried |-> available]
    /\ pc' = "failed"
    /\ UNCHANGED <<backends, availability_cache, last, job, available, fb, attempted,
                   backend, file, i, frame_count, skipped_count, step, result, calls>>
    /\ UNCHANGED <<libVars, thumb>>

\* _generate_with_backend: backend.open(output_path); when it raises, the
\* finally of generate_video closes the backend and the error propagates
OpenBackend(ok, f) ==
    /\ pc = "open"
    /\ file' = f
    /\ IF ok
       THEN /\ backend' = [backend EXCEPT !.is_opened = TRUE, !.writer = TRUE]
            /\ step' = "opened"
            /\ pc' = "frame_loop"
            /\ calls' = Append(calls, Call("open", 0))
            /\ UNCHANGED error
       ELSE /\ backend' = [backend EXCEPT !.is_opened = FALSE, !.writer = FALSE]
            /\ step' = "open_failed"
            /\ calls' = calls \o <<Call("open", 0), Call("close", 0)>>
            /\ error' = [kind |-> "open_failed", tried |-> <<>>]
            /\ pc' = "failed"
    /\ UNCHANGED <<backends, availability_cache, last, job, available, fb, attempted,
                   i, frame_count, skipped_count, result>>
    /\ UNCHANGED <<libVars, thumb>>

\* _generate_with_backend: one iteration of `for i, image_path in enumerate(valid_images)`
ProcessImage(outcome, cb_raises) ==
    /\ pc = "frame_loop"
    /\ i < job.total_images
    /\ cb_raises => outcome = "written"
    /\ LET c == frame_step(outcome, cb_raises, frame_count, skipped_count)
       IN /\ frame_count' = c.frame_count
          /\ skipped_count' = c.skipped_count
    /\ file' = IF outcome = "written" THEN "data" ELSE file
    /\ i' = i + 1
    /\ calls' = loop_calls(calls, outcome, i + 1)
    /\ step' = IF cb_raises THEN "written_callback_raised" ELSE outcome
    /\ pc' = IF i + 1 = job.total_images THEN "finalize" ELSE "frame_loop"
    /\ UNCHANGED <<backends, availability_cache, last, job, available, fb, attempted,
                   backend, result, error>>
    /\ UNCHANGED <<libVars, thumb>>

\* what can happen in _create_thumbnail: the thumbnail is saved, the middle
\* image does not decode, saving (or stat) raises, the file is not there after
\* the save
ThumbOutcomes == {"ok", "decode_failed", "save_error", "missing"}

\* _create_thumbnail with no try/except around its body
create_thumbnail_propagates(n, outcome) ==
    [middle_index |-> n \div 2,
     thumbnail |-> IF outcome = "ok" THEN "info" ELSE "None",
     raised |-> outcome = "save_error"]

\* VideoGenerator._create_thumbnail over n validated images: the index it
\* reads, the value it returns and whether an exception leaves it
create_thumbnail(n, outcome) ==
    [middle_index |-> n \div 2,
     thumbnail |-> IF outcome = "ok" THEN "info" ELSE "None",
     raised |-> FALSE]

\* _generate_with_backend after the loop: backend.close(), the check of
\* output_path, the thumbnail, the returned dict, and the except branch's
\* cleanup
Finalize(f, t) ==
    /\ pc = "finalize"
    /\ f \in CloseOutcomes(file)
    /\ t \in IF f # "absent" /\ job.create_thumbnail THEN ThumbOutcomes ELSE {"none"}
    /\ backend' = [backend EXCEPT !.is_opened = FALSE, !.writer = FALSE]
    /\ step' = "closed"
    /\ LET th == create_thumbnail(job.total_images, t)
       IN IF f = "absent"
          THEN /\ error' = [kind |-> "not_created", tried |-> <<>>]
               /\ pc' = "failed"
               /\ file' = f
               /\ calls' = calls \o <<Call("close", 0), Call("close", 0), Call("close", 0)>>
               /\ UNCHANGED <<result, thumb>>
          ELSE IF ~job.create_thumbnail
          THEN /\ result' = [success |-> TRUE, backend_used |-> backend.name,
                             frame_count |-> frame_count, skipped_count |-> skipped_count]
               /\ pc' = "done"
               /\ file' = f
               /\ calls' = calls \o <<Call("close", 0), Call("close", 0)>>
               /\ UNCHANGED <<error, thumb>>
          ELSE /\ thumb' = [attempts |-> thumb.attempts + 1,
                            middle_index |-> th.middle_index, outcome |-> t,
                            thumbnail |-> th.thumbnail, file_before |-> f]
               /\ IF th.raised
                  THEN /\ error' = [kind |-> "thumbnail_failed", tried |-> <<>>]
                       /\ pc' = "failed"
                       /\ file' = "absent"
                       /\ calls' = calls \o <<Call("close", 0), Call("close", 0),
                                               Call("close", 0)>>
                       /\ UNCHANGED result
                  ELSE /\ result' = [success |-> TRUE, backend_used |-> backend.name,
                                     frame_count |-> frame_count,
                                     skipped_count |-> skipped_count]
                       /\ pc' = "done"
                       /\ file' = f
                       /\ calls' = calls \o <<Call("close", 0), Call("close", 0)>>
                       /\ UNCHANGED error
    /\ UNCHANGED <<backends, availability_cache, last, job, available, fb, attempted,
                   i, frame_count, skipped_count>>
    /\ UNCHANGED libVars

JobNext ==
    \/ \E ctor_ok \in BOOLEAN : CreatePrimary(ctor_ok)
    \/ \E ctor_ok \in BOOLEAN : TryFallback(ctor_ok)
    \/ FallbackExhausted
    \/ \E ok \in BOOLEAN, f \in FileStates : OpenBackend(ok, f)
    \/ \E outcome \in {"written", "decode_failed", "write_failed"}, cb_raises \in BOOLEAN :
          ProcessImage(outcome, cb_raises)
    \/ \E f \in FileStates, t \in ThumbOutcomes \cup {"none"} : Finalize(f, t)

JobSpec == JobInit /\ [][JobNext]_vars

(***************************************************************************)
(* OpenCVBackend, FFmpegCVBackend, VideoEncoder: construction, validation  *)
(***************************************************************************)
OpenCVMaxFps == 120
OpenCVMaxDim == 8192
OpenCVMinDim == 16
FFmpegCVMaxFps == 240
FFmpegCVMaxDim == 16384
MaxCRF == 51

\* argument values: small ones and the ones around each limit of validate_settings
Around(x) == {x - 1, x, x + 1, x + 2}

Dims == (-1..MaxDim) \cup Around(OpenCVMinDim) \cup Around(OpenCVMaxDim)
            \cup Around(FFmpegCVMaxDim) \cup {1081, 1920}

FpsValues == {-1, 0, 1, OpenCVMaxFps, OpenCVMaxFps + 1, FFmpegCVMaxFps, FFmpegCVMaxFps + 1}

\* quality_preset arguments: one of the presets and one that is none
PresetArgs == {"medium", "custom"}

\* codec arguments: None, and one codec of each backend
CodecArgs == {NoName, "x264", "libx264"}

QUALITY_PRESETS == {"low", "medium", "high", "ultra"}

CRF_VALUES(preset) ==
    IF preset = "low" THEN 28
    ELSE IF preset = "medium" THEN 23
    ELSE IF preset = "high" THEN 18
    ELSE 15

\* what the machine offers FFmpegCVBackend: ffmpegcv imports, an NVENC writer
\* can be made, a QSV writer can be made
HwStates == {h \in [ffmpegcv : BOOLEAN, nvidia : BOOLEAN, intel : BOOLEAN] :
                ~h.ffmpegcv => (~h.nvidia /\ ~h.intel)}

\* VideoEncoder.ensure_even_dimensions
ensure_even_dimensions(width, height) ==
    [width |-> IF width % 2 # 0 THEN width - 1 ELSE width,
     height |-> IF height % 2 # 0 THEN height - 1 ELSE height]

\* an even-forcing step that rounds an odd dimension up
opencv_ensure_even_rounds_up(width, height) ==
    [width |-> IF width % 2 # 0 THEN width + 1 ELSE width,
     height |-> IF height % 2 # 0 THEN height + 1 ELSE height]

\* OpenCVBackend._ensure_even_dimensions
opencv_ensure_even_dimensions(width, height) ==
    [width |-> IF width % 2 # 0 THEN width - 1 ELSE width,
     height |-> IF height % 2 # 0 THEN height - 1 ELSE height]

\* FFmpegCVBackend._ensure_even_dimensions
ffmpegcv_ensure_even_dimensions(width, height) ==
    [width |-> IF width % 2 # 0 THEN width - 1 ELSE width,
     height |-> IF height % 2 # 0 THEN height - 1 ELSE height]

\* OpenCVBackend.__init__ with a valid quality preset
opencv_init(fps, width, height, codec, quality_preset) ==
    LET even == opencv_ensure_even_dimensions(width, height)
    IN [NoInstance EXCEPT !.kind = "opencv", !.fps = fps,
                          !.width = even.width, !.height = even.height,
                          !.quality_preset = quality_preset,
                          !.codec = IF codec # NoName THEN codec ELSE "mp4v",
                          !.crf = CRF_VALUES(quality_preset)]

is_nvidia_available(hw) == hw.ffmpegcv /\ hw.nvidia

is_intel_qsv_available(hw) == hw.ffmpegcv /\ hw.intel

is_amd_available(hw) == hw.ffmpegcv

\* FFmpegCVBackend._select_optimal_codec
select_optimal_codec(hardware_accel, hw) ==
    IF hardware_accel \in {"auto", "nvidia"} /\ is_nvidia_available(hw) THEN "h264_nvenc"
    ELSE IF hardware_accel \in {"auto", "intel"} /\ is_intel_qsv_available(hw) THEN "h264_qsv"
    ELSE IF hardware_accel \in {"auto", "amd"} /\ is_amd_available(hw) THEN "h264_amf"
    ELSE "libx264"

\* FFmpegCVBackend.__init__ with a valid quality preset, hardware_accel and
\* crf left at their defaults
ffmpegcv_init(fps, width, height, codec, quality_preset, hw) ==
    LET even == ffmpegcv_ensure_even_dimensions(width, height)
    IN [NoInstance EXCEPT !.kind = "ffmpegcv", !.fps = fps,
                          !.width = even.width, !.height = even.height,
                          !.quality_preset = quality_preset,
                          !.codec = IF codec # NoName THEN codec
                                    ELSE select_optimal_codec("auto", hw),
                          !.crf = CRF_VALUES(quality_preset),
                          !.hw = hw]

\* FFmpegCVBackend.get_default_codec on an instance made with hardware_accel
\* left at 'auto'
ffmpegcv_get_default_codec(b) == select_optimal_codec("auto", b.hw)

opencv_supported_codecs == {"mp4v", "x264", "x265", "avc1", "h264", "hevc"}

ffmpegcv_supported_codecs(hw) ==
    {"libx264", "libx265", "libvpx-vp9", "mpeg4"}
        \cup (IF is_nvidia_available(hw) THEN {"h264_nvenc", "hevc_nvenc"} ELSE {})
        \cup (IF is_intel_qsv_available(hw) THEN {"h264_qsv", "hevc_qsv"} ELSE {})
        \cup (IF is_amd_available(hw) THEN {"h264_amf", "hevc_amf"} ELSE {})

\* validate_settings of OpenCVBackend with the fps check testing fps < 0
opencv_validate_settings_accepts_zero_fps(b) ==
    (IF b.fps < 0 THEN {"FPS must be greater than 0"} ELSE {})
    \cup (IF b.fps > OpenCVMaxFps THEN {"FPS should not exceed 120"} ELSE {})
    \cup (IF b.width <= 0 \/ b.height <= 0
          THEN {"Width and height must be greater than 0"} ELSE {})
    \cup (IF b.width > OpenCVMaxDim \/ b.height > OpenCVMaxDim
          THEN {"Width and height should not exceed 8192 pixels"} ELSE {})
    \cup (IF b.codec \notin opencv_supported_codecs THEN {"Unsupported codec"} ELSE {})
    \cup (IF b.width % 2 # 0 \/ b.height % 2 # 0
          THEN {"Width and height must be even"} ELSE {})
    \cup (IF b.codec \in {"mp4v", "x264"} /\ (b.width < OpenCVMinDim \/ b.height < OpenCVMinDim)
          THEN {"Width and height must be at least 16 pixels"} ELSE {})

\* OpenCVBackend.validate_settings: the messages of the returned list
opencv_validate_settings(b) ==
    (IF b.fps <= 0 THEN {"FPS must be greater than 0"} ELSE {})
    \cup (IF b.fps > OpenCVMaxFps THEN {"FPS should not exceed 120"} ELSE {})
    \cup (IF b.width <= 0 \/ b.height <= 0
          THEN {"Width and height must be greater than 0"} ELSE {})
    \cup (IF b.width > OpenCVMaxDim \/ b.height > OpenCVMaxDim
          THEN {"Width and height should not exceed 8192 pixels"} ELSE {})
    \cup (IF b.codec \notin opencv_supported_codecs THEN {"Unsupported codec"} ELSE {})
    \cup (IF b.width % 2 # 0 \/ b.height % 2 # 0
          THEN {"Width and height must be even"} ELSE {})
    \cup (IF b.codec \in {"mp4v", "x264"} /\ (b.width < OpenCVMinDim \/ b.height < OpenCVMinDim)
          THEN {"Width and height must be at least 16 pixels"} ELSE {})

\* FFmpegCVBackend.validate_settings: the messages of the returned list
ffmpegcv_validate_settings(b) ==
    (IF b.fps <= 0 THEN {"FPS must be greater than 0"} ELSE {})
    \cup (IF b.fps > FFmpegCVMaxFps THEN {"FPS should not exceed 240"} ELSE {})
    \cup (IF b.width <= 0 \/ b.height <= 0
          THEN {"Width and height must be greater than 0"} ELSE {})
    \cup (IF b.width > FFmpegCVMaxDim \/ b.height > FFmpegCVMaxDim
          THEN {"Width and height should not exceed 16384 pixels"} ELSE {})
    \cup (IF b.codec \notin ffmpegcv_supported_codecs(b.hw) THEN {"Unsupported codec"} ELSE {})
    \cup (IF b.crf < 0 \/ b.crf > MaxCRF
          THEN {"CRF must be an integer between 0 and 51"} ELSE {})
    \cup (IF b.width % 2 # 0 \/ b.height % 2 # 0
          THEN {"Width and height must be even"} ELSE {})
    \cup (IF b.codec \in {"h264_nvenc", "hevc_nvenc"} /\ ~is_nvidia_available(b.hw)
          THEN {"NVIDIA NVENC codec selected but NVIDIA GPU not available"} ELSE {})
    \cup (IF b.codec \in {"h264_qsv", "hevc_qsv"} /\ ~is_intel_qsv_available(b.hw)
          THEN {"Intel QSV codec selected but Intel Quick Sync not available"} ELSE {})

\* the arguments of one constructor call (or of ensure_even_dimensions)
ConfigInit ==
    /\ backends = <<>>
    /\ availability_cache = EmptyCache
    /\ last = NoCall
    /\ JobIdle
    /\ inst = NoInstance
    /\ writers = <<>>
    /\ dim = NoDim
    /\ intake = NoIntake
    /\ probes = NoProbes
    /\ frame = NoFrame
    /\ conc = NoConc
    /\ \E f \in FpsValues, w \in Dims, h \in Dims, q \in PresetArgs, c \in CodecArgs :
          hist = [NoHist EXCEPT !.op = "args", !.fps = f, !.in_width = w, !.in_height = h,
                                !.quality_preset = q, !.codec = c]

\* OpenCVBackend(fps, width, height, codec=..., quality_preset=...)
ConstructOpenCV ==
    /\ hist.op = "args"
    /\ IF hist.quality_preset \notin QUALITY_PRESETS
       THEN /\ hist' = [hist EXCEPT !.op = "OpenCVBackend", !.raised = "ValueError"]
            /\ UNCHANGED inst
       ELSE /\ inst' = opencv_init(hist.fps, hist.in_width, hist.in_height, hist.codec,
                                   hist.quality_preset)
            /\ hist' = [hist EXCEPT !.op = "OpenCVBackend",
                                    !.out_width = inst'.width,
                                    !.out_height = inst'.height]
    /\ UNCHANGED <<regVars, jobVars, writers, dim, intake, probes, frame, conc>>

\* FFmpegCVBackend(fps, width, height, codec=..., quality_preset=...) on a
\* machine in hardware state hw
ConstructFFmpegCV(hw) ==
    /\ hist.op = "args"
    /\ IF hist.quality_preset \notin QUALITY_PRESETS
       THEN /\ hist' = [hist EXCEPT !.op = "FFmpegCVBackend", !.raised = "ValueError"]
            /\ UNCHANGED inst
       ELSE /\ inst' = ffmpegcv_init(hist.fps, hist.in_width, hist.in_height, hist.codec,
                                     hist.quality_preset, hw)
            /\ hist' = [hist EXCEPT !.op = "FFmpegCVBackend",
                                    !.out_width = inst'.width,
                                    !.out_height = inst'.height]
    /\ UNCHANGED <<regVars, jobVars, writers, dim, intake, probes, frame, conc>>

\* VideoEncoder.ensure_even_dimensions(width, height)
EnsureEvenDimensions ==
    /\ hist.op = "args"
    /\ LET even == ensure_even_dimensions(hist.in_width, hist.in_height)
       IN hist' = [hist EXCEPT !.op = "ensure_even_dimensions",
                               !.out_width = even.width,
                               !.out_height = even.height]
    /\ UNCHANGED <<regVars, jobVars, inst, writers, dim, intake, probes, frame, conc>>

\* backend.validate_settings() on the instance just constructed
ValidateSettings ==
    /\ hist.op \in {"OpenCVBackend", "FFmpegCVBackend"}
    /\ inst.kind # NoName
    /\ hist' = [hist EXCEPT !.op = "validate_settings",
                            !.errors = IF inst.kind = "opencv"
                                       THEN opencv_validate_settings(inst)
                                       ELSE ffmpegcv_validate_settings(inst)]
    /\ UNCHANGED <<regVars, jobVars, inst, writers, dim, intake, probes, frame, conc>>

ConfigNext ==
    \/ ConstructOpenCV
    \/ \E hw \in HwStates : ConstructFFmpegCV(hw)
    \/ EnsureEvenDimensions
    \/ ValidateSettings

ConfigSpec == ConfigInit /\ [][ConfigNext]_vars

(***************************************************************************)
(* OpenCVBackend, FFmpegCVBackend: open, write_frame, close                *)
(***************************************************************************)
\* A writer object of the encoder library: released counts its release() calls.
NewWriter == [released |-> 0]

\* what the encoder library does in open(): OpenCVBackend - the codec name or
\* the FourCC is refused or cv2.VideoWriter raises (before_writer), the writer
\* is made but isOpened() is false (not_opened), or it opens; FFmpegCVBackend -
\* ffmpegcv does not import (before_writer), the writer's constructor raises
\* (writer_failed), or it opens
OpenOutcomes(kind) ==
    IF kind = "opencv" THEN {"ok", "before_writer", "not_opened"}
    ELSE {"ok", "before_writer", "writer_failed"}

\* OpenCVBackend.open
opencv_open(b, ws, outcome) ==
    IF outcome = "before_writer"
    THEN [inst |-> b, writers |-> ws, raised |-> "RuntimeError"]
    ELSE IF outcome = "not_opened"
    THEN [inst |-> [b EXCEPT !.writer = 0], writers |-> Append(ws, NewWriter),
          raised |-> "RuntimeError"]
    ELSE [inst |-> [b EXCEPT !.writer = Len(ws) + 1, !.is_opened = TRUE],
          writers |-> Append(ws, NewWriter), raised |-> "none"]

\* FFmpegCVBackend.open
ffmpegcv_open(b, ws, outcome) ==
    IF outcome \in {"before_writer", "writer_failed"}
    THEN [inst |-> b, writers |-> ws, raised |-> "RuntimeError"]
    ELSE [inst |-> [b EXCEPT !.writer = Len(ws) + 1, !.is_opened = TRUE],
          writers |-> Append(ws, NewWriter), raised |-> "none"]

\* write_frame without the check of _is_opened and _writer
write_frame_unguarded(b, frame_ok, write_ok) ==
    IF ~frame_ok
    THEN [raised |-> "ValueError", handed |-> FALSE]
    ELSE [raised |-> IF write_ok THEN "none" ELSE "RuntimeError", handed |-> TRUE]

\* OpenCVBackend.write_frame and FFmpegCVBackend.write_frame: frame_ok = the
\* frame passes the format checks, write_ok = the writer's write() succeeds
write_frame(b, frame_ok, write_ok) ==
    IF ~b.is_opened \/ b.writer = 0
    THEN [raised |-> "RuntimeError", handed |-> FALSE]
    ELSE IF ~frame_ok
    THEN [raised |-> "ValueError", handed |-> FALSE]
    ELSE [raised |-> IF write_ok THEN "none" ELSE "RuntimeError", handed |-> TRUE]

\* OpenCVBackend.close and FFmpegCVBackend.close; an exception of release() is
\* caught and logged
close(b, ws) ==
    IF b.writer # 0
    THEN [inst |-> [b EXCEPT !.writer = 0, !.is_opened = FALSE],
          writers |-> [ws EXCEPT ![b.writer].released = @ + 1],
          raised |-> "none", released |-> TRUE]
    ELSE [inst |-> b, writers |-> ws, raised |-> "none", released |-> FALSE]

\* a backend instance after its constructor returned
LifecycleInit ==
    /\ backends = <<>>
    /\ availability_cache = EmptyCache
    /\ last = NoCall
    /\ JobIdle
    /\ inst \in {opencv_init(30, 640, 480, NoName, "medium")}
                 \cup {ffmpegcv_init(30, 640, 480, NoName, "medium", hw) : hw \in HwStates}
    /\ writers = <<>>
    /\ hist = NoHist
    /\ dim = NoDim
    /\ intake = NoIntake
    /\ probes = NoProbes
    /\ frame = NoFrame
    /\ conc = NoConc

\* backend.open(output_path)
Open(outcome) ==
    /\ outcome \in OpenOutcomes(inst.kind)
    /\ outcome \in {"ok", "not_opened"} => Len(writers) < MaxWriters
    /\ LET r == IF inst.kind = "opencv" THEN opencv_open(inst, writers, outcome)
                ELSE ffmpegcv_open(inst, writers, outcome)
       IN /\ inst' = r.inst
          /\ writers' = r.writers
          /\ hist' = [NoHist EXCEPT !.op = "open", !.raised = r.raised,
                                    !.was_opened = inst.is_opened,
                                    !.was_writer = inst.writer,
                                    !.prev = hist.op,
                                    !.live = (r.raised = "none") \/ hist.live,
                                    !.opens = IF r.raised = "none" THEN hist.opens + 1
                                              ELSE hist.opens]
    /\ UNCHANGED <<regVars, jobVars, dim, intake, probes, frame, conc>>

\* backend.write_frame(frame)
WriteFrame(frame_ok, write_ok) ==
    /\ LET r == write_frame(inst, frame_ok, write_ok)
       IN hist' = [NoHist EXCEPT !.op = "write_frame", !.raised = r.raised,
                                 !.handed = r.handed,
                                 !.was_opened = inst.is_opened,
                                 !.was_writer = inst.writer,
                                 !.prev = hist.op,
                                 !.live = hist.live,
                                 !.opens = hist.opens]
    /\ UNCHANGED <<regVars, jobVars, inst, writers, dim, intake, probes, frame, conc>>

\* backend.close()
Close ==
    /\ LET r == close(inst, writers)
       IN /\ inst' = r.inst
          /\ writers' = r.writers
          /\ hist' = [NoHist EXCEPT !.op = "close", !.raised = r.raised,
                                    !.released = r.released,
                                    !.was_opened = inst.is_opened,
                                    !.was_writer = inst.writer,
                                    !.prev = hist.op,
                                    !.live = FALSE,
                                    !.opens = hist.opens]
    /\ UNCHANGED <<regVars, jobVars, dim, intake, probes, frame, conc>>

LifecycleNext ==
    \/ \E outcome \in {"ok", "before_writer", "not_opened", "writer_failed"} : Open(outcome)
    \/ \E frame_ok \in BOOLEAN, write_ok \in BOOLEAN : WriteFrame(frame_ok, write_ok)
    \/ Close

LifecycleSpec == LifecycleInit /\ [][LifecycleNext]_vars

(***************************************************************************)
(* From create_backend to the first frames: what the generator does with   *)
(* the instance it was given                                               *)
(***************************************************************************)
\* the width and height generate_video passes on: never negative, even
AcquireDims == {d \in Dims : d >= 0 /\ d % 2 = 0}

\* backend.validate_settings()
validate_settings(b) ==
    IF b.kind = "opencv" THEN opencv_validate_settings(b) ELSE ffmpegcv_validate_settings(b)

\* backend_kwargs of _create_backend_instance: fps, codec and quality are the
\* VideoGenerator's constructor arguments, width and height come from the
\* dimension steps of generate_video
AcquireInit ==
    /\ backends = <<>>
    /\ availability_cache = EmptyCache
    /\ last = NoCall
    /\ JobIdle
    /\ inst = NoInstance
    /\ writers = <<>>
    /\ dim = NoDim
    /\ intake = NoIntake
    /\ probes = NoProbes
    /\ frame = NoFrame
    /\ conc = NoConc
    /\ \E f \in FpsValues, w \in AcquireDims, h \in AcquireDims, q \in PresetArgs,
          c \in CodecArgs :
          hist = [NoHist EXCEPT !.op = "args", !.fps = f, !.in_width = w, !.in_height = h,
                                !.quality_preset = q, !.codec = c]

\* create_backend(name, **backend_kwargs) for an available backend of the
\* given kind: backend_class(**kwargs), an exception of the constructor
\* re-raised as RuntimeError
AcquireCreateBackend(kind, hw) ==
    /\ hist.op = "args"
    /\ kind = "opencv" => hw = [ffmpegcv |-> FALSE, nvidia |-> FALSE, intel |-> FALSE]
    /\ kind = "ffmpegcv" => hw.ffmpegcv
    /\ IF hist.quality_preset \notin QUALITY_PRESETS
       THEN /\ hist' = [hist EXCEPT !.op = "create_backend", !.raised = "RuntimeError"]
            /\ UNCHANGED inst
       ELSE /\ inst' = IF kind = "opencv"
                       THEN opencv_init(hist.fps, hist.in_width, hist.in_height,
                                        hist.codec, hist.quality_preset)
                       ELSE ffmpegcv_init(hist.fps, hist.in_width, hist.in_height,
                                          hist.codec, hist.quality_preset, hw)
            /\ hist' = [hist EXCEPT !.op = "create_backend",
                                    !.out_width = inst'.width,
                                    !.out_height = inst'.height]
    /\ UNCHANGED <<regVars, jobVars, writers, dim, intake, probes, frame, conc>>

\* _generate_with_backend: backend.open(output_path) on the instance
\* _create_backend_instance returned
AcquireOpen(outcome) ==
    /\ hist.op = "create_backend"
    /\ hist.raised = "none"
    /\ Open(outcome)

\* the frame loop: backend.write_frame(frame)
AcquireWriteFrame(write_ok) ==
    /\ hist.op \in {"open", "write_frame"}
    /\ hist.raised = "none"
    /\ WriteFrame(TRUE, write_ok)

\* backend.close() after the loop or in generate_video's finally
AcquireClose ==
    /\ hist.op \in {"open", "write_frame"}
    /\ Close

AcquireNext ==
    \/ \E kind \in {"opencv", "ffmpegcv"}, hw \in HwStates : AcquireCreateBackend(kind, hw)
    \/ \E outcome \in {"ok", "before_writer", "not_opened", "writer_failed"} :
          AcquireOpen(outcome)
    \/ \E write_ok \in BOOLEAN : AcquireWriteFrame(write_ok)
    \/ AcquireClose

AcquireSpec == AcquireInit /\ [][AcquireNext]_vars

(***************************************************************************)
(* The frame loop's channel order: _process_image, then write_frame         *)
(***************************************************************************)
\* the values one colour channel of a pixel takes
Channels == 0..MaxChannel

\* one pixel of an image file as cv2.imread decodes it (IMREAD_COLOR: always
\* three channels, in the order blue, green, red)
Pixels == [1..3 -> Channels]

\* OpenCVBackend.get_pixel_format / FFmpegCVBackend.get_pixel_format
get_pixel_format(b) == IF b.kind = "ffmpegcv" THEN "rgb" ELSE "bgr"

\* cv2.cvtColor(img, cv2.COLOR_BGR2RGB) and frame[:, :, ::-1] on one pixel
ReverseChannels(px) == [k \in 1..Len(px) |-> px[Len(px) + 1 - k]]

\* VideoGenerator._process_image after imread and resize: the conversion to
\* the requested pixel format
process_image(px, pixel_format) ==
    IF pixel_format = "rgb" /\ Len(px) = 3
    THEN [data |-> ReverseChannels(px), converted |-> TRUE]
    ELSE [data |-> px, converted |-> FALSE]

\* OpenCVBackend.write_frame between the checks and self._writer.write(frame):
\* the colour conversion branch is `pass`
opencv_frame_for_writer(px) == [data |-> px, reordered |-> FALSE]

\* FFmpegCVBackend.write_frame between the checks and
\* self._writer.write(frame_rgb)
ffmpegcv_frame_for_writer(px) ==
    IF Len(px) = 3
    THEN [data |-> ReverseChannels(px), reordered |-> TRUE]
    ELSE [data |-> px, reordered |-> FALSE]

\* _generate_with_backend after backend.open(output_path) returned
FrameInit ==
    /\ backends = <<>>
    /\ availability_cache = EmptyCache
    /\ last = NoCall
    /\ JobIdle
    /\ inst \in {opencv_open(opencv_init(30, 640, 480, NoName, "medium"), <<>>, "ok").inst}
                 \cup {ffmpegcv_open(ffmpegcv_init(30, 640, 480, NoName, "medium", hw),
                                     <<>>, "ok").inst :
                        hw \in {h \in HwStates : h.ffmpegcv}}
    /\ writers = <<NewWriter>>
    /\ hist = NoHist
    /\ dim = NoDim
    /\ intake = NoIntake
    /\ probes = NoProbes
    /\ frame = NoFrame
    /\ conc = NoConc

\* frame = self._process_image(image_path, width, height,
\* backend.get_pixel_format()); readable = cv2.imread returned an image
FrameProcessImage(px, readable) ==
    /\ frame.stage # "processed"
    /\ frame' = IF ~readable
                THEN [NoFrame EXCEPT !.stage = "skipped"]
                ELSE LET r == process_image(px, get_pixel_format(inst))
                     IN [NoFrame EXCEPT !.stage = "processed", !.decoded = px,
                                        !.data = r.data,
                                        !.pipeline_converted = r.converted]
    /\ UNCHANGED <<regVars, jobVars, inst, writers, hist, dim, intake, probes, conc>>

\* backend.write_frame(frame) on the frame _process_image returned
FrameWriteFrame(write_ok) ==
    /\ frame.stage = "processed"
    /\ LET r == write_frame(inst, TRUE, write_ok)
           w == IF inst.kind = "opencv" THEN opencv_frame_for_writer(frame.data)
                ELSE ffmpegcv_frame_for_writer(frame.data)
       IN frame' = IF ~r.handed
                   THEN [frame EXCEPT !.stage = "write_failed"]
                   ELSE [frame EXCEPT !.stage = IF r.raised = "none" THEN "written"
                                                ELSE "write_failed",
                                      !.handed = w.data,
                                      !.backend_reordered = w.reordered]
    /\ UNCHANGED <<regVars, jobVars, inst, writers, hist, dim, intake, probes, conc>>

FrameNext ==
    \/ \E px \in Pixels, readable \in BOOLEAN : FrameProcessImage(px, readable)
    \/ \E write_ok \in BOOLEAN : FrameWriteFrame(write_ok)

FrameSpec == FrameInit /\ [][FrameNext]_vars

(***************************************************************************)
(* VideoGenerator.generate_video: the dimensions handed to the backend     *)
(***************************************************************************)
\* self.resolution = None
NoResolution == <<0, 0>>

\* sizes of validated images (validate_image rejects a side below 1) and
\* target resolutions
Sizes == (1..MaxDim) \X (1..MaxDim)

\* larger sources and targets: the 1920x1000 source against 1280x720, and a
\* 1920x1080 source against targets whose aspect ratio is equal, 0.005 away
\* and 0.017 away
ExampleSources == {<<1920, 1000>>, <<1920, 1080>>}

ExampleTargets == {<<1280, 720>>, <<1280, 718>>, <<1280, 713>>}

\* get_resolution_for_aspect_ratio fitting to the target height when the
\* original is wider and to the target width otherwise
get_resolution_fits_wrong_side(ow, oh, tw, th) ==
    LET diff == IF ow * th >= tw * oh THEN ow * th - tw * oh ELSE tw * oh - ow * th
    IN IF 100 * diff < oh * th
       THEN [width |-> tw, height |-> th]
       ELSE IF ow * th > tw * oh
       THEN [width |-> (th * ow) \div oh, height |-> th]
       ELSE [width |-> tw, height |-> (tw * oh) \div ow]

\* VideoEncoder.get_resolution_for_aspect_ratio with a target resolution, the
\* divisions carried out exactly (on the sizes used here the floating-point
\* computation of the code gives the same values)
get_resolution_for_aspect_ratio(ow, oh, tw, th) ==
    LET diff == IF ow * th >= tw * oh THEN ow * th - tw * oh ELSE tw * oh - ow * th
    IN IF 100 * diff < oh * th
       THEN [width |-> tw, height |-> th]
       ELSE IF ow * th > tw * oh
       THEN [width |-> tw, height |-> (tw * oh) \div ow]
       ELSE [width |-> (th * ow) \div oh, height |-> th]

\* generate_video after validation: the first validated image's size, the
\* generator's resolution setting and the backend that will be constructed
DimInit ==
    /\ backends = <<>>
    /\ availability_cache = EmptyCache
    /\ last = NoCall
    /\ JobIdle
    /\ inst = NoInstance
    /\ writers = <<>>
    /\ hist = NoHist
    /\ intake = NoIntake
    /\ probes = NoProbes
    /\ frame = NoFrame
    /\ conc = NoConc
    /\ \E src \in Sizes \cup ExampleSources,
          r \in Sizes \cup ExampleTargets \cup {NoResolution},
          k \in {"opencv", "ffmpegcv"} :
          dim = [NoDim EXCEPT !.stage = "validated", !.source = src, !.resolution = r,
                              !.kind = k]

\* width, height = props["common_size"] (or the first image's shape)
GetDimensions ==
    /\ dim.stage = "validated"
    /\ dim' = [dim EXCEPT !.stage = "props", !.width = dim.source[1],
                          !.height = dim.source[2]]
    /\ UNCHANGED <<regVars, jobVars, inst, writers, hist, intake, probes, frame, conc>>

\* if self.resolution: width, height = get_resolution_for_aspect_ratio(...)
ScaleResolution ==
    /\ dim.stage = "props"
    /\ LET r == get_resolution_for_aspect_ratio(dim.width, dim.height,
                                                dim.resolution[1], dim.resolution[2])
       IN dim' = IF dim.resolution = NoResolution
                 THEN [dim EXCEPT !.stage = "scaled"]
                 ELSE [dim EXCEPT !.stage = "scaled", !.width = r.width,
                                  !.height = r.height]
    /\ UNCHANGED <<regVars, jobVars, inst, writers, hist, intake, probes, frame, conc>>

\* width, height = self.encoder.ensure_even_dimensions(width, height)
EnsureEven ==
    /\ dim.stage = "scaled"
    /\ LET even == ensure_even_dimensions(dim.width, dim.height)
       IN dim' = [dim EXCEPT !.stage = "even", !.width = even.width,
                             !.height = even.height]
    /\ UNCHANGED <<regVars, jobVars, inst, writers, hist, intake, probes, frame, conc>>

\* _create_backend_instance(width, height): the backend's constructor stores
\* the dimensions it was given, forced even
CreateBackendInstance ==
    /\ dim.stage = "even"
    /\ LET b == IF dim.kind = "opencv"
                THEN opencv_init(30, dim.width, dim.height, NoName, "medium")
                ELSE ffmpegcv_init(30, dim.width, dim.height, NoName, "medium",
                                   NoInstance.hw)
       IN dim' = [dim EXCEPT !.stage = "constructed", !.stored = <<b.width, b.height>>]
    /\ UNCHANGED <<regVars, jobVars, inst, writers, hist, intake, probes, frame, conc>>

DimNext ==
    \/ GetDimensions
    \/ ScaleResolution
    \/ EnsureEven
    \/ CreateBackendInstance

DimSpec == DimInit /\ [][DimNext]_vars

(***************************************************************************)
(* Image intake: generate_video up to the validated list, and              *)
(* estimate_output_info                                                    *)
(***************************************************************************)
MinBitrate == 1000000
MaxBitrate == 50000000

\* pixel sizes of image files: one whose bit rate falls below the band, one
\* inside it and one above it at the higher quality factors
ImageSizes == {<<1920, 1080>>, <<8192, 8192>>, <<16384, 16384>>}

ImageFiles == [valid : BOOLEAN, size : ImageSizes]

\* the input directories: a missing one, and existing ones holding up to
\* MaxImages image files
Directories ==
    {[exists |-> FALSE, files |-> <<>>]}
        \cup UNION {{[exists |-> TRUE, files |-> fs] : fs \in [1..k -> ImageFiles]}
                       : k \in 0..MaxImages}

\* fps settings of the generator
IntakeFps == {0, 1, 30}

\* quality settings of the generator: the four presets and "custom"
IntakeQualities == QUALITY_PRESETS \cup {"custom"}

\* file_utils.find_image_files: ret = the files found; the module has no name
\* `logger`, so the logger.info call made when files were found raises
\* NameError
find_image_files(d) ==
    IF ~d.exists THEN [raised |-> "FileNotFoundError", ret |-> <<>>]
    ELSE IF d.files = <<>> THEN [raised |-> "ValueError: No images found", ret |-> <<>>]
    ELSE [raised |-> "NameError: name 'logger' is not defined", ret |-> <<>>]

\* file_utils.validate_image_sequence: the valid files, in order; the
\* logger.error call made for each invalid file raises NameError
validate_image_sequence(fs) ==
    IF \E k \in 1..Len(fs) : ~fs[k].valid
    THEN [raised |-> "NameError: name 'logger' is not defined", ret |-> <<>>]
    ELSE [raised |-> "none", ret |-> fs]

\* generate_video from its start to the check of valid_images: raised = the
\* exception that leaves generate_video there, ret = valid_images
generate_video_intake(d) ==
    LET f == find_image_files(d)
        v == validate_image_sequence(f.ret)
    IN IF f.raised # "none" THEN [raised |-> f.raised, ret |-> <<>>]
       ELSE IF v.raised # "none" THEN [raised |-> v.raised, ret |-> <<>>]
       ELSE IF v.ret = <<>> THEN [raised |-> "ValueError: No valid images found", ret |-> <<>>]
       ELSE [raised |-> "none", ret |-> v.ret]

\* VideoGenerator._get_quality_factor, doubled
get_quality_factor2(quality) ==
    IF quality = "low" THEN 1
    ELSE IF quality = "medium" THEN 2
    ELSE IF quality = "high" THEN 3
    ELSE IF quality = "ultra" THEN 4
    ELSE 2

Max(a, b) == IF a >= b THEN a ELSE b

Min(a, b) == IF a <= b THEN a ELSE b

\* file_utils.estimate_output_size over a non-empty list: the sample is
\* image_files[len(image_files) // 2]; base_bitrate = pixels * 0.1 *
\* quality_factor, held to [1 Mbps, 50 Mbps]; with an unreadable sample the
\* size is frame_count * 0.1 * quality_factor and no bit rate is used
estimate_output_size(fs, fps, qf2, sample_ok) ==
    IF fps = 0 THEN [raised |-> "ZeroDivisionError", ret |-> NoEstimate]
    ELSE LET sample == fs[(Len(fs) \div 2) + 1]
             pixels == sample.size[1] * sample.size[2]
             base20 == Min(Max(pixels * qf2, 20 * MinBitrate), 20 * MaxBitrate)
         IN [raised |-> "none",
             ret |-> [kind |-> "estimate", input_count |-> Len(fs),
                      duration_seconds |-> <<Len(fs), fps>>,
                      bitrate20 |-> IF sample_ok THEN base20 ELSE 0]]

\* VideoGenerator.estimate_output_info: its body is one try / except Exception
\* that returns {"error": str(e)}
estimate_output_info(d, fps, quality, sample_ok) ==
    LET f == find_image_files(d)
        v == validate_image_sequence(f.ret)
        e == estimate_output_size(v.ret, fps, get_quality_factor2(quality), sample_ok)
        err == [NoEstimate EXCEPT !.kind = "error"]
    IN IF f.raised # "none" THEN err
       ELSE IF v.raised # "none" THEN err
       ELSE IF v.ret = <<>> THEN err
       ELSE IF e.raised # "none" THEN err
       ELSE e.ret

\* a generator and an input directory, before a method is called
IntakeInit ==
    /\ backends = <<>>
    /\ availability_cache = EmptyCache
    /\ last = NoCall
    /\ JobIdle
    /\ inst = NoInstance
    /\ writers = <<>>
    /\ hist = NoHist
    /\ dim = NoDim
    /\ probes = NoProbes
    /\ frame = NoFrame
    /\ conc = NoConc
    /\ \E d \in Directories, f \in IntakeFps, q \in IntakeQualities, ok \in BOOLEAN :
          intake = [NoIntake EXCEPT !.op = "args", !.dir = d, !.fps = f, !.quality = q,
                                    !.sample_ok = ok]

\* generate_video(input_dir, output_path) up to `if not valid_images`: the
\* exception raised there ends the job before _create_backend_instance
GenerateVideoIntake ==
    /\ intake.op = "args"
    /\ LET r == generate_video_intake(intake.dir)
       IN /\ intake' = [intake EXCEPT !.op = "generate_video", !.raised = r.raised,
                                      !.valid = Len(r.ret)]
          /\ IF r.raised # "none"
             THEN /\ pc' = "failed"
                  /\ error' = [kind |-> r.raised, tried |-> <<>>]
                  /\ UNCHANGED job
             ELSE /\ pc' = "create_primary"
                  /\ job' = [job EXCEPT !.total_images = Len(r.ret)]
                  /\ UNCHANGED error
    /\ UNCHANGED <<regVars, available, fb, attempted, backend, file, i, frame_count,
                   skipped_count, step, result, calls, thumb, inst, writers, hist, dim,
                   probes, frame, conc>>

\* estimate_output_info(input_dir)
EstimateOutputInfo ==
    /\ intake.op = "args"
    /\ intake' = [intake EXCEPT !.op = "estimate_output_info",
                                !.ret = estimate_output_info(intake.dir, intake.fps,
                                                             intake.quality,
                                                             intake.sample_ok)]
    /\ UNCHANGED <<regVars, jobVars, inst, writers, hist, dim, probes, frame, conc>>

IntakeNext ==
    \/ GenerateVideoIntake
    \/ EstimateOutputInfo

IntakeSpec == IntakeInit /\ [][IntakeNext]_vars

(***************************************************************************)
(* Registry claims                                                         *)
(***************************************************************************)
Registered(n) == DictHas(backends, n)

\* the probe of the class now registered under n returns True
ProbeTrue(n) == Registered(n) /\ DictGet(backends, n).probe = "true"

Position(n) == CHOOSE k \in 1..Len(backends) : backends[k].name = n

Priority(n) == get_backend_priority(backends, n)

\* C1: get_best_backend() returns None exactly when no registered backend's
\* probe is true; otherwise it returns a registered backend whose probe is
\* true, whose priority is the smallest among those, and which stands first in
\* registration order (the order of list_backends()) among those of that
\* priority.
C1_BestBackend ==
    last.op = "get_best_backend" =>
        /\ (last.ret = NoName) <=> ({n \in Names : ProbeTrue(n)} = {})
        /\ last.ret # NoName =>
              /\ ProbeTrue(last.ret)
              /\ \A m \in Names : ProbeTrue(m) =>
                    /\ Priority(last.ret) <= Priority(m)
                    /\ Priority(m) = Priority(last.ret) => Position(last.ret) <= Position(m)

\* C1 witness: a backend of smaller priority number is registered but
\* unavailable, and get_best_backend returned the available one (A 90
\* unavailable, B 100 available gives B).
C1_Witness ==
    /\ last.op = "get_best_backend"
    /\ last.ret # NoName
    /\ \E m \in Names : Registered(m) /\ ~ProbeTrue(m) /\ Priority(m) < Priority(last.ret)

CacheConsistent ==
    \A n \in DOMAIN availability_cache : availability_cache[n] = ProbeTrue(n)

\* C9 as stated: every cache entry equals the probe result of the class now
\* registered under its name (False when none is), and right after
\* register(name, C) or unregister(name) the cache holds no entry for name.
C9_Original ==
    /\ CacheConsistent
    /\ last.op \in {"register", "unregister"} => last.name \notin DOMAIN availability_cache

\* C9 amended: every cache entry equals the probe result of the class now
\* registered under its name (False when none is); right after
\* register(name, C), and right after unregister(name) of a name that was
\* registered, the cache holds no entry for name.
C9_CacheInvalidation ==
    /\ CacheConsistent
    /\ (last.op = "register" \/ (last.op = "unregister" /\ last.was)) =>
           last.name \notin DOMAIN availability_cache

\* C9 witness: a registered name with a cached availability was registered again.
C9_Witness == last.op = "register" /\ last.was /\ last.had

C11_AvailabilityNeverRaises ==
    last.op = "is_backend_available" =>
        /\ last.raised = "none"
        /\ ~Registered(last.name) => ~last.ret_bool
        /\ (Registered(last.name) /\ DictGet(backends, last.name).probe = "raise")
               => ~last.ret_bool
        /\ (Registered(last.name) /\ DictGet(backends, last.name).probe # "raise")
               => (last.ret_bool <=> DictGet(backends, last.name).probe = "true")

\* C11 witness: the probe of a registered class was run (no cached entry) and
\* raised, and the call returned False.
C11_Witness ==
    /\ last.op = "is_backend_available"
    /\ Registered(last.name)
    /\ DictGet(backends, last.name).probe = "raise"
    /\ ~last.had
    /\ ~last.ret_bool

\* C12: create_backend(name) raises ValueError("Unknown backend") when name is
\* not registered and ValueError("... not available") when name is registered
\* but its availability is false, and in both cases no constructor is invoked;
\* create_best_backend raises RuntimeError when no registered backend is
\* available.
C12_FactoryErrors ==
    /\ (last.op = "create_backend" /\ ~Registered(last.name)) =>
           (last.raised = "ValueError: Unknown backend" /\ ~last.constructed)
    /\ (last.op = "create_backend" /\ Registered(last.name) /\ ~ProbeTrue(last.name)) =>
           (last.raised = "ValueError: not available" /\ ~last.constructed)
    /\ (last.op = "create_best_backend" /\ {n \in Names : ProbeTrue(n)} = {}) =>
           (last.raised = "RuntimeError: No video backends are available"
            /\ ~last.constructed)

\* C12 witness: create_backend was called with a registered name whose probe
\* had not been cached and is not true, and raised.
C12_Witness ==
    /\ last.op = "create_backend"
    /\ Registered(last.name)
    /\ ~ProbeTrue(last.name)
    /\ ~last.had
    /\ last.raised = "ValueError: not available"

\* C26: between two consecutive cache-invalidating events for a name
\* (register or unregister of that name, or clear_cache) the is_available
\* probe of its class is called at most once, however many
\* is_backend_available, get_available_backends, get_best_backend and
\* create_backend calls are made, and all of them are given the same
\* availability value for the name - False when the probe raised.
C26_ProbeOncePerGeneration ==
    \A n \in Names :
        /\ probes[n].count <= 1
        /\ Cardinality(probes[n].seen) <= 1
        /\ (Registered(n) /\ DictGet(backends, n).probe = "raise") =>
               probes[n].seen \subseteq {FALSE}
        /\ n \in DOMAIN availability_cache => probes[n].seen \subseteq {availability_cache[n]}

\* C26 witness: the class registered under a name has a probe that raises; it
\* was probed once, its callers were told False, and the cached False is what
\* a further call will be given.
C26_Witness ==
    \E n \in Names :
        /\ Registered(n)
        /\ DictGet(backends, n).probe = "raise"
        /\ probes[n].count = 1
        /\ probes[n].seen = {FALSE}
        /\ n \in DOMAIN availability_cache
        /\ \E m \in Names \ {n} : ProbeTrue(m) /\ probes[m].seen = {TRUE}

(***************************************************************************)
(* Job claims                                                              *)
(***************************************************************************)
SeqToSet(q) == {q[k] : k \in 1..Len(q)}

\* the registered, available backends other than the requested one
OtherAvailable == {m \in Names \ {job.backend_name} : ProbeTrue(m)}

\* x is ranked before y: smaller priority number, ties in registration order
RankedBefore(x, y) ==
    \/ Priority(x) < Priority(y)
    \/ Priority(x) = Priority(y) /\ Position(x) < Position(y)

\* C2: when, with fallback enabled, the requested backend was constructed but
\* its open() raised, and exactly one other backend is registered and
\* available, the job ends done
\* with a result whose backend_used is that other backend.
C2_OpenFailureFallsBack ==
    (/\ pc \in {"done", "failed"}
     /\ job.backend_fallback
     /\ error.kind = "open_failed"
     /\ backend.name = job.backend_name
     /\ Cardinality(OtherAvailable) = 1)
    => (pc = "done" /\ result.success /\ result.backend_used \in OtherAvailable)

\* C3: every returned result has frame_count + skipped_count equal to the
\* number of validated images.
C3_SkipAccounting ==
    pc = "done" => result.frame_count + result.skipped_count = job.total_images

\* C4: a result with success = True is returned only if at least one frame
\* was written and the output file exists with non-zero size after close.
C4_SuccessNeedsFrames ==
    (pc = "done" /\ result.success) => (result.frame_count >= 1 /\ file = "data")

\* C5: an image whose decode or write_frame fails adds exactly one to
\* skipped_count, leaves frame_count alone and the loop goes on to the next
\* image (to finalization after the last one); finalization is reached only
\* with every validated image processed.
C5_SkipAndContinue ==
    /\ [](pc \in {"finalize", "done"} => i = job.total_images)
    /\ [][(pc = "frame_loop" /\ i' = i + 1 /\ step' \in {"decode_failed", "write_failed"})
            => /\ skipped_count' = skipped_count + 1
               /\ frame_count' = frame_count
               /\ pc' = (IF i' < job.total_images THEN "frame_loop" ELSE "finalize")]_vars

\* C5 witness: an image failed and the loop stands before the next image.
C5_Witness ==
    /\ pc = "frame_loop"
    /\ step \in {"decode_failed", "write_failed"}
    /\ i >= 1
    /\ i < job.total_images
    /\ skipped_count >= 1

\* C6: when the job has failed after a backend instance was acquired, the
\* backend is closed and no file remains at the output path.
C6_CleanupOnFailure ==
    (pc = "failed" /\ backend.name # NoName)
    => (~backend.is_opened /\ ~backend.writer /\ file = "absent")

\* C7: the fallback attempts (all attempts after the first) never name the
\* primary backend, are made in ascending priority order with ties in
\* registration order, and the backend returned by the fallback loop is the
\* first in that order that constructs: every other available backend ranked
\* before it was attempted before it.
C7_FallbackOrder ==
    /\ \A a \in 2..Len(attempted) : attempted[a] # job.backend_name
    /\ \A a, b \in 2..Len(attempted) : a < b => RankedBefore(attempted[a], attempted[b])
    /\ (backend.name # NoName /\ backend.name # job.backend_name) =>
           \A m \in OtherAvailable :
               RankedBefore(m, backend.name) => m \in SeqToSet(attempted)

\* C8: the aggregate error raised when the primary and every fallback failed
\* to construct lists exactly the names create_backend was called with.
C8_TriedNames ==
    (pc = "failed" /\ error.kind = "no_backend")
    => SeqToSet(error.tried) = SeqToSet(attempted)

WriteCalls == {k \in 1..Len(calls) : calls[k].op = "write_frame"}

\* C20: within one job the generator calls backend.open exactly once, then
\* write_frame only for validated images, in strictly increasing index order
\* and each at most once, then close: no write_frame comes before open or
\* after the first close, and a job that ends after acquiring a backend has
\* called open and, last, close.
C20_CallOrder ==
    /\ calls # <<>> => calls[1].op = "open"
    /\ Cardinality({k \in 1..Len(calls) : calls[k].op = "open"}) <= 1
    /\ \A k \in WriteCalls : calls[k].idx \in 1..job.total_images
    /\ \A k, l \in WriteCalls : k < l => calls[k].idx < calls[l].idx
    /\ \A k, l \in 1..Len(calls) : (k < l /\ calls[k].op = "close") => calls[l].op = "close"
    /\ (pc \in {"done", "failed"} /\ backend.name # NoName) =>
           (calls # <<>> /\ calls[Len(calls)].op = "close")

\* C20 witness: a job ended done with write_frame called for a later image
\* but not for the first one.
C20_Witness ==
    /\ pc = "done"
    /\ WriteCalls # {}
    /\ \A k \in WriteCalls : calls[k].idx > 1
    /\ calls[Len(calls)].op = "close"

\* C21: an exception raised by the progress callback on an iteration never
\* aborts the job - the loop goes on to the next image (to finalization after
\* the last one) - and the frame of that iteration counts as written and not
\* as skipped: frame_count grows by one and skipped_count stays.
C21_CallbackErrorSwallowed ==
    [][(pc = "frame_loop" /\ step' = "written_callback_raised")
          => /\ i' = i + 1
             /\ pc' = (IF i' < job.total_images THEN "frame_loop" ELSE "finalize")
             /\ frame_count' = frame_count + 1
             /\ skipped_count' = skipped_count]_vars

\* C22: _create_thumbnail is called at most once per job, only when a
\* thumbnail was requested and after the writer was closed with the video
\* file in place, and reads the validated image at index floor(n/2); when it
\* fails (decode failure, save error, file missing afterwards) the job still
\* ends done with success = True and thumbnail = None, and the video file is
\* left as it was.
C22_ThumbnailBestEffort ==
    /\ thumb.attempts <= 1
    /\ thumb.attempts = 1 =>
           /\ job.create_thumbnail
           /\ calls # <<>> /\ calls[Len(calls)].op = "close"
           /\ thumb.file_before # "absent"
           /\ thumb.middle_index = job.total_images \div 2
           /\ thumb.middle_index \in 0..(job.total_images - 1)
           /\ pc = "done" /\ result.success
           /\ file = thumb.file_before
           /\ (thumb.thumbnail = "None") <=> (thumb.outcome # "ok")

\* C22 witness: a job over two or more images ended done, its thumbnail could
\* not be saved and the video file is in place.
C22_Witness ==
    /\ pc = "done"
    /\ result.success
    /\ job.total_images >= 2
    /\ thumb.attempts = 1
    /\ thumb.outcome = "save_error"
    /\ thumb.thumbnail = "None"
    /\ file = "data"

(***************************************************************************)
(* Backend construction and validation claims                              *)
(***************************************************************************)
EvenForced(d) == IF d % 2 # 0 THEN d - 1 ELSE d

\* C13: every even-forcing step (the construction of OpenCVBackend and of
\* FFmpegCVBackend, and VideoEncoder.ensure_even_dimensions) maps an odd
\* dimension d to d - 1 and leaves an even one unchanged: the resulting width
\* and height are even, never above the input and never incremented.
C13_EvenForcing ==
    (hist.op \in {"OpenCVBackend", "FFmpegCVBackend", "ensure_even_dimensions"}
     /\ hist.raised = "none") =>
        /\ hist.out_width = EvenForced(hist.in_width)
        /\ hist.out_height = EvenForced(hist.in_height)
        /\ hist.out_width % 2 = 0 /\ hist.out_height % 2 = 0
        /\ hist.out_width <= hist.in_width /\ hist.out_height <= hist.in_height
        /\ hist.op # "ensure_even_dimensions" =>
               (inst.width = hist.out_width /\ inst.height = hist.out_height)

\* C13 witness: an OpenCVBackend constructed with 1920x1081 stores 1920x1080.
C13_Witness ==
    /\ hist.op = "OpenCVBackend"
    /\ hist.raised = "none"
    /\ hist.in_width = 1920
    /\ hist.in_height = 1081
    /\ inst.width = 1920
    /\ inst.height = 1080

\* C14: in every job the width and height the generator passes to a backend
\* constructor, and the ones the backend stores, are strictly positive and
\* even, for every validated source size >= 1x1 and every positive target
\* resolution.
C14_PositiveEvenDimensions ==
    dim.stage = "constructed" =>
        /\ dim.width > 0 /\ dim.height > 0
        /\ dim.width % 2 = 0 /\ dim.height % 2 = 0
        /\ dim.stored[1] > 0 /\ dim.stored[2] > 0
        /\ dim.stored[1] % 2 = 0 /\ dim.stored[2] % 2 = 0

\* |a - b| for the cross products of two aspect ratios
CrossDiff(ow, oh, tw, th) ==
    IF ow * th >= tw * oh THEN ow * th - tw * oh ELSE tw * oh - ow * th

\* the aspect ratios ow/oh and tw/th differ by less than 1% of the smaller one
NearRelative(ow, oh, tw, th) ==
    100 * CrossDiff(ow, oh, tw, th) < Min(ow * th, tw * oh)

\* the aspect ratios ow/oh and tw/th differ by less than 0.01
NearAbsolute(ow, oh, tw, th) ==
    100 * CrossDiff(ow, oh, tw, th) < oh * th

\* the negotiated resolution of the job, given whether its source and target
\* count as near: after scaling, near gives the target itself, a relatively
\* wider source the target width with the height cut from the source aspect
\* ratio, any other source the target height with the width cut from it;
\* after even-forcing both sides are even and not above the target; 1920x1000
\* against 1280x720 ends as 1280x666
Negotiated(near) ==
    LET ow == dim.source[1]
        oh == dim.source[2]
        tw == dim.resolution[1]
        th == dim.resolution[2]
    IN dim.resolution # NoResolution =>
          /\ dim.stage = "scaled" =>
                 IF near THEN dim.width = tw /\ dim.height = th
                 ELSE IF ow * th > tw * oh
                 THEN /\ dim.width = tw
                      /\ dim.height * ow <= tw * oh
                      /\ tw * oh < (dim.height + 2) * ow
                 ELSE /\ dim.height = th
                      /\ dim.width * oh <= th * ow
                      /\ th * ow < (dim.width + 2) * oh
          /\ dim.stage \in {"even", "constructed"} =>
                 /\ dim.width % 2 = 0 /\ dim.height % 2 = 0
                 /\ dim.width <= tw /\ dim.height <= th
          /\ (dim.stage = "even" /\ dim.source = <<1920, 1000>>
              /\ dim.resolution = <<1280, 720>>) =>
                 (dim.width = 1280 /\ dim.height = 666)

\* C27 as stated: with a target resolution, when the aspect ratios of source
\* and target differ by less than 1% the result is the target; otherwise a
\* relatively wider source gets the target width and a height from its own
\* aspect ratio, any other the target height and a width from it; the result
\* is forced even and exceeds the target in neither dimension.
C27_Original ==
    Negotiated(NearRelative(dim.source[1], dim.source[2],
                            dim.resolution[1], dim.resolution[2]))

\* C27 amended: with a target resolution, when the aspect ratios ow/oh and
\* tw/th differ by less than 0.01 in absolute value the result is the target;
\* otherwise a relatively wider source gets the target width and a height
\* from its own aspect ratio, any other the target height and a width from
\* it; the result is forced even and exceeds the target in neither dimension.
C27_AspectNegotiation ==
    Negotiated(NearAbsolute(dim.source[1], dim.source[2],
                            dim.resolution[1], dim.resolution[2]))

\* C27 witness: 1920x1000 against 1280x720 was scaled and forced even to
\* 1280x666.
C27_Witness ==
    /\ dim.stage = "even"
    /\ dim.source = <<1920, 1000>>
    /\ dim.resolution = <<1280, 720>>
    /\ dim.width = 1280
    /\ dim.height = 666

DefaultCodec == hist.codec = NoName

C24_AutoCodec ==
    (hist.op = "FFmpegCVBackend" /\ hist.raised = "none" /\ DefaultCodec) =>
        /\ "libx264" \in ffmpegcv_supported_codecs(inst.hw)
        /\ inst.codec = ffmpegcv_get_default_codec(inst)
        /\ (~is_nvidia_available(inst.hw) /\ ~is_intel_qsv_available(inst.hw)) =>
               ffmpegcv_get_default_codec(inst) = "libx264"
        /\ is_nvidia_available(inst.hw) => ffmpegcv_get_default_codec(inst) = "h264_nvenc"
        /\ (~is_nvidia_available(inst.hw) /\ is_intel_qsv_available(inst.hw)) =>
               ffmpegcv_get_default_codec(inst) = "h264_qsv"

(***************************************************************************)
(* Backend life-cycle claims                                               *)
(***************************************************************************)
\* C16: close() never raises and is idempotent: it may be called on an
\* instance that was never opened, on one whose open() failed and any number
\* of times after a successful open; after a close the instance is not open,
\* a close that follows a close changes nothing and touches no writer, and no
\* writer is released more than once.
C16_CloseIdempotent ==
    /\ hist.op = "close" =>
           /\ hist.raised = "none"
           /\ ~inst.is_opened
           /\ inst.writer = 0
    /\ (hist.op = "close" /\ hist.prev = "close") =>
           /\ ~hist.released
           /\ inst.is_opened = hist.was_opened
           /\ inst.writer = hist.was_writer
    /\ \A k \in 1..Len(writers) : writers[k].released <= 1

\* C17: after any call of open() that raises, _is_opened is false, whatever
\* open and close calls were made before.
C17_FailedOpenNotOpen ==
    (hist.op = "open" /\ hist.raised # "none") => ~inst.is_opened

\* C18: open() on an instance that is already open raises and leaves the
\* existing writer in place; an instance goes through the open state at most
\* once.
C18_OpenTwiceRejected ==
    /\ (hist.op = "open" /\ hist.was_opened) =>
           (hist.raised # "none" /\ inst.writer = hist.was_writer)
    /\ hist.opens <= 1

\* C19: write_frame on an instance that is not open - never successfully
\* opened, or closed since it was - raises and hands no frame to any writer,
\* whatever open, write_frame and close calls were made before.
C19_WriteNeedsOpen ==
    (hist.op = "write_frame" /\ ~hist.live) => (hist.raised # "none" /\ ~hist.handed)

\* C19 witness: write_frame was called on an instance that
\* had been opened successfully and closed, and raised.
C19_Witness ==
    /\ hist.op = "write_frame"
    /\ hist.opens >= 1
    /\ ~hist.live
    /\ hist.prev = "close"
    /\ hist.raised = "RuntimeError"
    /\ ~hist.handed

(***************************************************************************)
(* Image intake and estimation claims                                      *)
(***************************************************************************)
\* the directory exists and holds image files, none of which is valid
NoValidImages(d) ==
    d.exists /\ d.files # <<>> /\ \A k \in 1..Len(d.files) : ~d.files[k].valid

\* the number of valid image files of the directory
ValidCount(d) == Cardinality({k \in 1..Len(d.files) : d.files[k].valid})

\* C23: when no image of the input directory validates, generate_video
\* fails with ValueError('No valid images found') with no backend constructed
\* or opened and no output file written, and estimate_output_info returns an
\* error record.
C23_NoValidImages ==
    /\ (intake.op = "generate_video" /\ NoValidImages(intake.dir)) =>
           /\ intake.raised = "ValueError: No valid images found"
           /\ pc = "failed"
           /\ backend = NoBackend /\ attempted = <<>> /\ calls = <<>>
           /\ file = "absent"
    /\ (intake.op = "estimate_output_info" /\ NoValidImages(intake.dir)) =>
           intake.ret.kind = "error"

\* C25: estimate_output_info constructs and opens no backend, writes and
\* deletes no file and never raises; for a directory with n >= 1 valid images
\* and a positive fps it returns an estimate whose duration is n / fps, made
\* with a bit rate inside [1 Mbps, 50 Mbps]; every other input gives an error
\* record.
C25_EstimateOnly ==
    intake.op = "estimate_output_info" =>
        /\ intake.raised = "none"
        /\ backend = NoBackend /\ attempted = <<>> /\ calls = <<>> /\ writers = <<>>
        /\ file = "absent"
        /\ intake.ret.kind \in {"estimate", "error"}
        /\ (intake.dir.exists /\ ValidCount(intake.dir) >= 1 /\ intake.fps > 0) =>
               /\ intake.ret.kind = "estimate"
               /\ intake.ret.duration_seconds = <<ValidCount(intake.dir), intake.fps>>
               /\ intake.ret.bitrate20 >= 20 * MinBitrate
               /\ intake.ret.bitrate20 <= 20 * MaxBitrate

(***************************************************************************)
(* Channel order claims                                                    *)
(***************************************************************************)
\* a decoded pixel laid out in the named pixel format
InFormat(decoded, pixel_format) ==
    IF pixel_format = "bgr" THEN decoded ELSE <<decoded[3], decoded[2], decoded[1]>>

\* C28: channel order is converted in one place only: _process_image converts
\* exactly when the backend's pixel format is not BGR, write_frame reorders
\* nothing, and the frame the writer is handed is in the format the backend
\* declares (RGB for FFmpegCVBackend, BGR for OpenCVBackend).
C28_SingleConversion ==
    frame.handed # <<>> =>
        /\ frame.pipeline_converted <=> (get_pixel_format(inst) # "bgr")
        /\ ~frame.backend_reordered
        /\ frame.handed = InFormat(frame.decoded, get_pixel_format(inst))

(***************************************************************************)
(* Acquisition claims                                                      *)
(***************************************************************************)
\* C30: a backend whose validate_settings() reports violations for the
\* configuration it was constructed with counts as a failed acquisition: the
\* generator calls neither open nor write_frame on it.
C30_InvalidNeverOpened ==
    (inst.kind # NoName /\ hist.op \in {"open", "write_frame"})
        => validate_settings(inst) = {}

(***************************************************************************)
(* Concurrent registry claims                                              *)
(***************************************************************************)
\* C29: with several threads in the registry, no cache entry is stale: once
\* a register(name, C) or unregister(name) call has returned, a probe of the
\* name that was in flight does not leave in the cache the value it computed
\* from what was registered before that call.
C29_NoStaleCacheEntry == conc.stale = {}
====
